---- MODULE Spec2Model ----
(***************************************************************************)
(* Model of the webinar -> CRM automation scripts.                         *)
(*                                                                         *)
(*   SpecTime       parse_time_to_seconds and the strftime/gmtime          *)
(*                  formatting of a duration (zoom_utils.py,               *)
(*                  zoom_process_high_engagement_leads.py)                 *)
(*   SpecClassify   determine_tag / determine_hot_lead of zoom_utils.py    *)
(*                  (identical in webinarjam_retrieve_attendees.py and     *)
(*                  post-webby-script-2.py) and of                         *)
(*                  low_engagement_replay_data.py                          *)
(*   SpecAggregate  process_high_engagement_attendees                      *)
(*   SpecPreprocess process_zoom_participants                              *)
(*   SpecName       the name split of the aggregation loop and             *)
(*                  amazon_gung.split_name                                 *)
(*   SpecSend       send_to_ghl of zoom_utils.py and of                    *)
(*                  webinarjam_retrieve_attendees.py                       *)
(*   SpecZoomClient ZoomAPIClient of main.py                               *)
(*   SpecLowEngagement process_low_engagement_no_shows of                  *)
(*                  post-webby-script-2.py                                 *)
(*   SpecRegistrants the pagination loop of process_registrants            *)
(*                  (webinarjam_retrieve_attendees.py)                     *)
(*   SpecPayload    the payload send_to_ghl of zoom_utils.py posts         *)
(*   SpecCsv        preprocess_csv of amazon_gung.py                       *)
(*   SpecTagging    tag_low_engagement_contacts of                         *)
(*                  zoom_process_low_engagement_leads.py                   *)
(*   SpecRegister   register_contact of webinarjam_auto_register.py        *)
(*                                                                         *)
(* Python strings are sequences of one-character strings; Python values    *)
(* are records tagged with their type.                                     *)
(***************************************************************************)
EXTENDS Integers, Sequences, FiniteSets, TLC

VARIABLES
    \* ---- SpecTime
    time_str,          \* the value handed to parse_time_to_seconds
    default_seconds,   \* its default_seconds argument
    time_live_seconds, \* the duration handed to strftime/gmtime (or -1: none)
    parse_result,      \* outcome of parse_time_to_seconds
    tpc,               \* "format" | "parse" | "done"
    \* ---- SpecClassify
    registrant,        \* the registrant dictionary
    script,            \* which script's determine_* is run
    tag,               \* outcome of determine_tag
    hot_lead,          \* outcome of determine_hot_lead
    cpc,               \* "classify" | "done"
    \* ---- SpecAggregate
    page_count,        \* make_zoom_api_request: pages requested so far
    all_items,         \* make_zoom_api_request: items collected so far
    all_participant_sessions, \* the fetched session list
    si,                \* sessions of the list already aggregated
    aggregated_attendees, \* the dict, as its items in insertion order
    di,                \* aggregated attendees already classified
    ghl_posts,         \* JSON payloads posted to the webhook, in order
    attendees_sent_count,
    apc,               \* "fetch" | "aggregate" | "deliver" | "done" | "failed"
    \* ---- SpecPreprocess
    all_participants,      \* the argument of process_zoom_participants
    filtered_participants,
    unique_participants,   \* the dict, as its (registrant_id, participant) items
    ui,                    \* filtered participants already looked at
    carl_processed,
    processed_participants,
    oi,                    \* unique participants already simplified
    ppc,                   \* "filter" | "dedup" | "simplify" | "done"
    \* ---- SpecName
    full_name,         \* the display name handed to the name split
    name_script,       \* which script's split is run
    first_name,        \* its results
    last_name,
    npc,               \* "split" | "done"
    \* ---- SpecSend
    send_script,       \* which script's send_to_ghl the delivery loop calls
    ghl_target_url,    \* whether a webhook URL is configured
    webhook_answers,   \* what the webhook answers to the 1st, 2nd, ... POST
    clock,             \* seconds since the delivery loop started
    ghl_calls,         \* the send_to_ghl calls made so far, in order
    send_result,       \* outcome of the last send_to_ghl call
    spc,               \* "send" | "done" | "aborted"
    \* ---- SpecZoomClient
    max_retries,       \* settings.max_retries
    now,               \* datetime.now(), in seconds
    access_token,      \* ZoomAPIClient.access_token
    token_expires_at,  \* ZoomAPIClient.token_expires_at
    retries,           \* get_participants: its local counter
    requests,          \* participants requests issued by the current call
    total_requests,    \* participants requests issued by the run
    get_result,        \* outcome of the last get_participants call
    zpc,               \* "call" | "loop" | "done" | "raised"
    \* ---- SpecLowEngagement
    page,              \* process_low_engagement_no_shows: page requested next
    total_pages_api,   \* total_pages of the page being processed
    data,              \* the data array of the page being processed
    ei,                \* entries of data already looked at
    fetched,           \* every entry of every page received, in order
    low_posts,         \* the send_to_ghl calls made, in order
    api_fetched_count,
    processed_count,
    lpc,               \* "fetch" | "entries" | "done"
    \* ---- SpecRegistrants
    wj_page,   \* process_registrants: page requested next
    wj_requests,   \* the page requests made so far and what they were answered
    wj_sent,   \* the page of each lead handed to send_to_ghl, in order
    total_api_registrants_fetched,
    wpc,  \* "fetch" | "done"
    \* ---- SpecPayload
    registrant_data,   \* the dict handed to zoom_utils.send_to_ghl
    send_args,   \* its tag, purchased_status, hot_lead_status and occurrence_id
    payload_cleaned,   \* the JSON body of the POST
    ypc,  \* "send" | "done"
    \* ---- SpecCsv
    row,   \* a row of the input CSV, as csv.DictReader gives it
    written_row,   \* the row handed to writer.writerow
    kpc,  \* "row" | "done"
    \* ---- SpecTagging
    current_page,   \* page of the contact search asked for next
    total_fetched,   \* contacts received so far
    contacts_seen,   \* every contact of the search results, in the order received
    contacts_to_tag_low_engagement,   \* ids collected for tagging
    tag_requests,   \* the POSTs made to /contacts/{id}/tags
    gi,   \* ids the tagging loop has gone through
    gpc,  \* "search" | "tag" | "done"
    \* ---- SpecRegister
    contact_name,   \* contact.name of the request being served
    attempt,   \* the loop variable of register_contact
    reg_responses,   \* one entry per registration request sent, with its answer
    ghl_webhook_posts,   \* the POSTs made to ghl_webhook_url
    backoff,   \* seconds slept before re-sending
    register_result,   \* how register_contact ended
    rpc   \* "start" | "attempt" | "done"

timeVars == <<time_str, default_seconds, time_live_seconds, parse_result, tpc>>
clsVars == <<registrant, script, tag, hot_lead, cpc>>
aggVars ==
    <<page_count, all_items, all_participant_sessions, si, aggregated_attendees, di,
      ghl_posts, attendees_sent_count, apc>>

preVars ==
    <<all_participants, filtered_participants, unique_participants, ui, carl_processed,
      processed_participants, oi, ppc>>

nameVars == <<full_name, name_script, first_name, last_name, npc>>
sendVars ==
    <<send_script, ghl_target_url, webhook_answers, clock, ghl_calls, send_result, spc>>

zoomVars ==
    <<max_retries, now, access_token, token_expires_at, retries, requests,
      total_requests, get_result, zpc>>

lowVars ==
    <<page, total_pages_api, data, ei, fetched, low_posts, api_fetched_count,
      processed_count, lpc>>

regVars == <<wj_page, wj_requests, wj_sent, total_api_registrants_fetched, wpc>>

payVars == <<registrant_data, send_args, payload_cleaned, ypc>>

csvVars == <<row, written_row, kpc>>

tagVars == <<current_page, total_fetched, contacts_seen, contacts_to_tag_low_engagement, tag_requests, gi, gpc>>

registerVars == <<contact_name, attempt, reg_responses, ghl_webhook_posts, backoff, register_result, rpc>>

vars == <<timeVars, clsVars, aggVars, preVars, nameVars, sendVars, zoomVars, lowVars, regVars, payVars, csvVars, tagVars, registerVars>>

\* what each script leaves alone: the state of the other scripts
TimeOthers == <<clsVars, aggVars, preVars, nameVars, sendVars, zoomVars, lowVars, regVars, payVars, csvVars, tagVars, registerVars>>
ClsOthers == <<timeVars, aggVars, preVars, nameVars, sendVars, zoomVars, lowVars, regVars, payVars, csvVars, tagVars, registerVars>>
AggOthers == <<timeVars, clsVars, preVars, nameVars, sendVars, zoomVars, lowVars, regVars, payVars, csvVars, tagVars, registerVars>>
PreOthers == <<timeVars, clsVars, aggVars, nameVars, sendVars, zoomVars, lowVars, regVars, payVars, csvVars, tagVars, registerVars>>
NameOthers == <<timeVars, clsVars, aggVars, preVars, sendVars, zoomVars, lowVars, regVars, payVars, csvVars, tagVars, registerVars>>
SendOthers == <<timeVars, clsVars, aggVars, preVars, nameVars, zoomVars, lowVars, regVars, payVars, csvVars, tagVars, registerVars>>
ZoomOthers == <<timeVars, clsVars, aggVars, preVars, nameVars, sendVars, lowVars, regVars, payVars, csvVars, tagVars, registerVars>>
LowOthers == <<timeVars, clsVars, aggVars, preVars, nameVars, sendVars, zoomVars, regVars, payVars, csvVars, tagVars, registerVars>>
RegOthers == <<timeVars, clsVars, aggVars, preVars, nameVars, sendVars, zoomVars, lowVars, payVars, csvVars, tagVars, registerVars>>
PayOthers == <<timeVars, clsVars, aggVars, preVars, nameVars, sendVars, zoomVars, lowVars, regVars, csvVars, tagVars, registerVars>>
CsvOthers == <<timeVars, clsVars, aggVars, preVars, nameVars, sendVars, zoomVars, lowVars, regVars, payVars, tagVars, registerVars>>
TagOthers == <<timeVars, clsVars, aggVars, preVars, nameVars, sendVars, zoomVars, lowVars, regVars, payVars, csvVars, registerVars>>
RegisterOthers == <<timeVars, clsVars, aggVars, preVars, nameVars, sendVars, zoomVars, lowVars, regVars, payVars, csvVars, tagVars>>

-----------------------------------------------------------------------------
(* Python values *)

PyStr(s) == [type |-> "str", val |-> s]
PyNum(n) == [type |-> "int", val |-> n]
PyNone == [type |-> "NoneType", val |-> <<>>]

TagRaise(e) == [kind |-> "raise", value |-> "", exc |-> e]
TagNotRun == [kind |-> "none", value |-> "", exc |-> ""]

Return(v) == [kind |-> "return", value |-> v, exc |-> ""]
Raise(e) == [kind |-> "raise", value |-> 0, exc |-> e]
NotRun == [kind |-> "none", value |-> 0, exc |-> ""]

-----------------------------------------------------------------------------
(* str methods used by the scripts *)

DigitChars == <<"0", "1", "2", "3", "4", "5", "6", "7", "8", "9">>

IsDigit(c) == \E i \in 1..10 : DigitChars[i] = c

DigitVal(c) == (CHOOSE i \in 1..10 : DigitChars[i] = c) - 1

Contains(s, c) == \E i \in 1..Len(s) : s[i] = c

FirstIndex(s, c) == CHOOSE i \in 1..Len(s) : s[i] = c /\ \A j \in 1..(i - 1) : s[j] # c

\* s.split(c) for a one-character separator: always at least one part
RECURSIVE Split(_, _)
Split(s, c) ==
    IF ~Contains(s, c) THEN <<s>>
    ELSE LET i == FirstIndex(s, c)
         IN <<SubSeq(s, 1, i - 1)>> \o Split(SubSeq(s, i + 1, Len(s)), c)

IsSpace(c) == c = " "

RECURSIVE LStrip(_)
LStrip(s) == IF Len(s) > 0 /\ IsSpace(s[1]) THEN LStrip(Tail(s)) ELSE s

RECURSIVE RStrip(_)
RStrip(s) ==
    IF Len(s) > 0 /\ IsSpace(s[Len(s)]) THEN RStrip(SubSeq(s, 1, Len(s) - 1)) ELSE s

\* s.strip()
Strip(s) == RStrip(LStrip(s))

LowerOf ==
    [A |-> "a", B |-> "b", C |-> "c", D |-> "d", E |-> "e", F |-> "f", G |-> "g",
     H |-> "h", I |-> "i", J |-> "j", K |-> "k", L |-> "l", M |-> "m", N |-> "n",
     O |-> "o", P |-> "p", Q |-> "q", R |-> "r", S |-> "s", T |-> "t", U |-> "u",
     V |-> "v", W |-> "w", X |-> "x", Y |-> "y", Z |-> "z"]

LowerChar(c) == IF c \in DOMAIN LowerOf THEN LowerOf[c] ELSE c

\* s.lower()
Lower(s) == [i \in 1..Len(s) |-> LowerChar(s[i])]

-----------------------------------------------------------------------------
(* int(str): surrounding whitespace is ignored, one optional sign, then     *)
(* digits that may be grouped by single underscores; anything else is a    *)
(* ValueError.                                                             *)

Unsigned(t) == IF Len(t) > 0 /\ t[1] \in {"+", "-"} THEN Tail(t) ELSE t

IntLiteralOK(s) ==
    LET u == Unsigned(Strip(s))
    IN /\ Len(u) > 0
       /\ IsDigit(u[1])
       /\ IsDigit(u[Len(u)])
       /\ \A i \in 1..Len(u) : IsDigit(u[i]) \/ u[i] = "_"
       /\ \A i \in 1..(Len(u) - 1) : ~(u[i] = "_" /\ u[i + 1] = "_")

RECURSIVE DigitsValue(_)
DigitsValue(u) ==
    IF Len(u) = 0 THEN 0
    ELSE LET c == u[Len(u)]
             rest == SubSeq(u, 1, Len(u) - 1)
         IN IF c = "_" THEN DigitsValue(rest)
            ELSE 10 * DigitsValue(rest) + DigitVal(c)

IntValue(s) ==
    LET t == Strip(s)
        v == DigitsValue(Unsigned(t))
    IN IF Len(t) > 0 /\ t[1] = "-" THEN 0 - v ELSE v

\* int(s) as an outcome
PyInt(s) == IF IntLiteralOK(s) THEN Return(IntValue(s)) ELSE Raise("ValueError")

\* str(n) of an integer: its decimal rendering
RECURSIVE DecDigits(_)
DecDigits(n) ==
    IF n < 10 THEN <<DigitChars[n + 1]>>
    ELSE DecDigits(n \div 10) \o <<DigitChars[(n % 10) + 1]>>

Dec(n) == IF n < 0 THEN <<"-">> \o DecDigits(0 - n) ELSE DecDigits(n)

\* str(v)
PyStrOf(v) ==
    CASE v.type = "str" -> v.val
      [] v.type = "int" -> Dec(v.val)
      [] OTHER -> <<"N", "o", "n", "e">>

\* a key the dictionary does not hold
Missing == [type |-> "missing", val |-> <<>>]

\* dict.get(key, default) on the value stored under the key
Get(stored, dflt) == IF stored = Missing THEN dflt ELSE stored

-----------------------------------------------------------------------------
(* zoom_utils.parse_time_to_seconds *)

\* ParseTimeTry with the two-part form read as hours and minutes
ParseTimeTry_TwoPartsAsHours(s, dflt) ==
    LET parts == Split(s, ":")
    IN IF Len(parts) = 3
       THEN IF \A i \in 1..3 : IntLiteralOK(parts[i])
            THEN Return(IntValue(parts[1]) * 3600 + IntValue(parts[2]) * 60
                        + IntValue(parts[3]))
            ELSE Raise("ValueError")
       ELSE IF Len(parts) = 2
       THEN IF \A i \in 1..2 : IntLiteralOK(parts[i])
            THEN Return(IntValue(parts[1]) * 3600 + IntValue(parts[2]) * 60)
            ELSE Raise("ValueError")
       ELSE Return(dflt)

\* the body of the try block: map(int, parts) unpacked, then the sum
ParseTimeTry(s, dflt) ==
    LET parts == Split(s, ":")
    IN IF Len(parts) = 3
       THEN IF \A i \in 1..3 : IntLiteralOK(parts[i])
            THEN Return(IntValue(parts[1]) * 3600 + IntValue(parts[2]) * 60
                        + IntValue(parts[3]))
            ELSE Raise("ValueError")
       ELSE IF Len(parts) = 2
       THEN IF \A i \in 1..2 : IntLiteralOK(parts[i])
            THEN Return(IntValue(parts[1]) * 60 + IntValue(parts[2]))
            ELSE Raise("ValueError")
       ELSE Return(dflt)

\* ParseTimeExcept without the handler: the ValueError propagates
ParseTimeExcept_NoHandler(r, dflt) == r

\* the except ValueError clause
ParseTimeExcept(r, dflt) ==
    IF r.kind = "raise" /\ r.exc = "ValueError" THEN Return(dflt) ELSE r

parse_time_to_seconds(v, dflt) ==
    IF v.type # "str" \/ ~Contains(v.val, ":") THEN Return(dflt)
    ELSE ParseTimeExcept(ParseTimeTry(v.val, dflt), dflt)

-----------------------------------------------------------------------------
(* time.strftime('%H:%M:%S', time.gmtime(seconds)): gmtime breaks the      *)
(* seconds since the epoch into a calendar date and a time of day, and     *)
(* the format prints the time of day only.                                 *)

SecondsPerDay == 86400

TwoDigits(n) == <<DigitChars[(n \div 10) + 1], DigitChars[(n % 10) + 1]>>

gmtime(secs) ==
    LET tod == secs % SecondsPerDay
    IN [tm_yday |-> secs \div SecondsPerDay,
        tm_hour |-> tod \div 3600,
        tm_min |-> (tod % 3600) \div 60,
        tm_sec |-> tod % 60]

strftime_HMS(tm) ==
    TwoDigits(tm.tm_hour) \o <<":">> \o TwoDigits(tm.tm_min) \o <<":">>
        \o TwoDigits(tm.tm_sec)

FormatTimeLive(secs) == strftime_HMS(gmtime(secs))

-----------------------------------------------------------------------------
(* zoom_utils.determine_tag / determine_hot_lead; the copies in            *)
(* webinarjam_retrieve_attendees.py (lines 90-112) and                     *)
(* post-webby-script-2.py (lines 75-87) read the same.                     *)

HighEngagementSeconds == 5400
HotLeadSeconds == 7200

Yes == <<"y", "e", "s">>
DefaultTimeLive == PyStr(<<"0", "0", ":", "0", "0", ":", "0", "0">>)

determine_tag(r) ==
    LET attended_live == Lower(PyStrOf(Get(r.attended_live, PyStr(<<>>))))
        time_live_str == Get(r.time_live, DefaultTimeLive)
    IN IF attended_live = Yes
       THEN LET total_seconds == parse_time_to_seconds(time_live_str, 0)
            IN IF total_seconds.kind = "raise" THEN TagRaise(total_seconds.exc)
               ELSE IF total_seconds.value >= HighEngagementSeconds
               THEN Return("high engagement")
               ELSE Return("low engagement")
       ELSE Return("no-show")

\* determine_hot_lead with the boundary excluded
determine_hot_lead_Strict(r) ==
    LET attended_live == Lower(PyStrOf(Get(r.attended_live, PyStr(<<>>))))
    IN IF attended_live # Yes THEN Return(0)
       ELSE LET total_seconds ==
                    parse_time_to_seconds(Get(r.time_live, DefaultTimeLive), 0)
            IN IF total_seconds.kind = "raise" THEN total_seconds
               ELSE IF total_seconds.value > HotLeadSeconds THEN Return(1)
               ELSE Return(0)

determine_hot_lead(r) ==
    LET attended_live == Lower(PyStrOf(Get(r.attended_live, PyStr(<<>>))))
    IN IF attended_live # Yes THEN Return(0)
       ELSE LET total_seconds ==
                    parse_time_to_seconds(Get(r.time_live, DefaultTimeLive), 0)
            IN IF total_seconds.kind = "raise" THEN total_seconds
               ELSE IF total_seconds.value >= HotLeadSeconds THEN Return(1)
               ELSE Return(0)

-----------------------------------------------------------------------------
(* low_engagement_replay_data.determine_tag / determine_hot_lead *)

\* hours, minutes, seconds = map(int, time_live.split(":")) and the sum
EW_total_seconds(v) ==
    IF v.type # "str" THEN Raise("AttributeError")
    ELSE LET parts == Split(v.val, ":")
         IN IF Len(parts) # 3 \/ \E i \in 1..Len(parts) : ~IntLiteralOK(parts[i])
            THEN Raise("ValueError")
            ELSE Return(IntValue(parts[1]) * 3600 + IntValue(parts[2]) * 60
                        + IntValue(parts[3]))

EW_determine_tag(r) ==
    LET attended_live == Get(r.attended_live, PyStr(<<>>))
    IN IF attended_live.type # "str" THEN TagRaise("AttributeError")
       ELSE IF Lower(attended_live.val) = Yes
       THEN LET total_seconds == EW_total_seconds(Get(r.time_live, DefaultTimeLive))
            IN IF total_seconds.kind = "raise" THEN TagRaise(total_seconds.exc)
               ELSE IF total_seconds.value >= HighEngagementSeconds
               THEN Return("high engagement")
               ELSE Return("low engagement")
       ELSE Return("no-show")

EW_determine_hot_lead(r) ==
    LET total_seconds == EW_total_seconds(Get(r.time_live, DefaultTimeLive))
    IN IF total_seconds.kind = "raise" THEN total_seconds
       ELSE IF total_seconds.value >= HotLeadSeconds THEN Return(1)
       ELSE Return(0)

-----------------------------------------------------------------------------
(* SpecTime: inputs *)

MaxStrLen == 5
MaxHours == 99

TimeAlphabet == {"0", "1", ":", "-", " ", "a"}

ShortStrings == UNION {[1..n -> TimeAlphabet] : n \in 0..MaxStrLen}

ExampleStrings ==
    { <<"1", ":", "2", ":", "3", ":", "4">>,
      <<"a", "b", "c">>,
      <<"0", "1", ":", "3", "0", ":", "0", "0">>,
      <<"-", "1", ":", "0", "0", ":", "0", "0">>,
      <<"0", ":", "-", "5", ":", "0", "0">>,
      <<"+", "1", ":", "3", "0">>,
      <<"1", "_", "0", ":", "0", "5">>,
      <<"1", "_", ":", "0", "5">>,
      <<"9", "0", ":", "0", "0">> }

TimeInputs ==
    {PyStr(s) : s \in ShortStrings \cup ExampleStrings} \cup {PyNone, PyNum(90)}

Defaults == {0, 7}

\* durations h*3600 + m*60 + s handed to the formatter
FormatMinutes == {0, 1, 30, 59}
FormatSeconds == {0, 1, 59}
Durations ==
    {h * 3600 + m * 60 + s : h \in 0..MaxHours, m \in FormatMinutes, s \in FormatSeconds}

ClsIdle ==
    /\ registrant = [attended_live |-> PyNone, time_live |-> PyNone]
    /\ script = "none"
    /\ tag = TagNotRun
    /\ hot_lead = NotRun
    /\ cpc = "idle"

TimeIdle ==
    /\ time_str = PyNone
    /\ default_seconds = 0
    /\ time_live_seconds = -1
    /\ parse_result = NotRun
    /\ tpc = "idle"

AggIdle ==
    /\ page_count = 0
    /\ all_items = <<>>
    /\ all_participant_sessions = <<>>
    /\ si = 0
    /\ aggregated_attendees = <<>>
    /\ di = 0
    /\ ghl_posts = <<>>
    /\ attendees_sent_count = 0
    /\ apc = "idle"

PreIdle ==
    /\ all_participants = <<>>
    /\ filtered_participants = <<>>
    /\ unique_participants = <<>>
    /\ ui = 0
    /\ carl_processed = FALSE
    /\ processed_participants = <<>>
    /\ oi = 0
    /\ ppc = "idle"

NameIdle ==
    /\ full_name = <<>>
    /\ name_script = "none"
    /\ first_name = <<>>
    /\ last_name = <<>>
    /\ npc = "idle"

SendIdle ==
    /\ send_script = "none"
    /\ ghl_target_url = FALSE
    /\ webhook_answers = <<>>
    /\ clock = 0
    /\ ghl_calls = <<>>
    /\ send_result = NotRun
    /\ spc = "idle"

NoToken == [issued_at |-> -1, scope |-> {}]

ZoomIdle ==
    /\ max_retries = 0
    /\ now = 0
    /\ access_token = NoToken
    /\ token_expires_at = -1
    /\ retries = 0
    /\ requests = <<>>
    /\ total_requests = 0
    /\ get_result = NotRun
    /\ zpc = "idle"

LowIdle ==
    /\ page = 0
    /\ total_pages_api = 0
    /\ data = <<>>
    /\ ei = 0
    /\ fetched = <<>>
    /\ low_posts = <<>>
    /\ api_fetched_count = 0
    /\ processed_count = 0
    /\ lpc = "idle"

RegIdle ==
    /\ wj_page = 0
    /\ wj_requests = <<>>
    /\ wj_sent = <<>>
    /\ total_api_registrants_fetched = 0
    /\ wpc = "idle"

PayIdle ==
    /\ registrant_data = <<>>
    /\ send_args = <<>>
    /\ payload_cleaned = <<>>
    /\ ypc = "idle"

CsvIdle ==
    /\ row = <<>>
    /\ written_row = <<>>
    /\ kpc = "idle"

TagIdle ==
    /\ current_page = 0
    /\ total_fetched = 0
    /\ contacts_seen = <<>>
    /\ contacts_to_tag_low_engagement = <<>>
    /\ tag_requests = <<>>
    /\ gi = 0
    /\ gpc = "idle"

RegisterIdle ==
    /\ contact_name = <<>>
    /\ attempt = 0
    /\ reg_responses = <<>>
    /\ ghl_webhook_posts = <<>>
    /\ backoff = 0
    /\ register_result = NotRun
    /\ rpc = "idle"

\* the scripts a specification does not run
LaterIdle == NameIdle /\ SendIdle /\ ZoomIdle /\ LowIdle
EarlierIdle == TimeIdle /\ ClsIdle /\ AggIdle /\ PreIdle
LastIdle == RegIdle /\ PayIdle /\ CsvIdle /\ TagIdle /\ RegisterIdle

TimeInit ==
    /\ parse_result = NotRun
    /\ \/ /\ tpc = "parse"
          /\ time_str \in TimeInputs
          /\ default_seconds \in Defaults
          /\ time_live_seconds = -1
       \/ /\ tpc = "format"
          /\ time_live_seconds \in Durations
          /\ time_str = PyNone
          /\ default_seconds = 0
    /\ ClsIdle
    /\ AggIdle
    /\ PreIdle
    /\ LaterIdle
    /\ LastIdle

\* zoom_process_high_engagement_leads.py line 77
FormatDuration ==
    /\ tpc = "format"
    /\ time_str' = PyStr(FormatTimeLive(time_live_seconds))
    /\ tpc' = "parse"
    /\ UNCHANGED <<default_seconds, time_live_seconds, parse_result>>
    /\ UNCHANGED TimeOthers

ParseTime ==
    /\ tpc = "parse"
    /\ parse_result' = parse_time_to_seconds(time_str, default_seconds)
    /\ tpc' = "done"
    /\ UNCHANGED <<time_str, default_seconds, time_live_seconds>>
    /\ UNCHANGED TimeOthers

TimeNext == FormatDuration \/ ParseTime

SpecTime == TimeInit /\ [][TimeNext]_vars

-----------------------------------------------------------------------------
(* SpecClassify: one registrant record classified by one script *)

AttendedValues ==
    { PyStr(Yes), PyStr(<<"Y", "e", "s">>), PyStr(<<"Y", "E", "S">>),
      PyStr(<<"n", "o">>), PyStr(<<>>), PyStr(<<" ", "y", "e", "s">>),
      PyNone, PyNum(1), Missing }

BoundaryDurations == {0, 3599, 5399, 5400, 7199, 7200, 9998}

TimeLiveValues ==
    {PyStr(FormatTimeLive(d)) : d \in BoundaryDurations}
        \cup { PyStr(<<"8", "9", ":", "5", "9">>), PyStr(<<"9", "0", ":", "0", "0">>),
               PyStr(<<"1", "2", "0", ":", "0", "0">>), PyStr(<<"a", "b", "c">>),
               PyStr(<<"1", ":", "2", ":", "3", ":", "4">>), PyNone, Missing }

ClsInit ==
    /\ registrant \in [attended_live : AttendedValues, time_live : TimeLiveValues]
    /\ script \in {"zoom_utils", "everwebinar"}
    /\ tag = TagNotRun
    /\ hot_lead = NotRun
    /\ cpc = "classify"
    /\ TimeIdle
    /\ AggIdle
    /\ PreIdle
    /\ LaterIdle
    /\ LastIdle

\* tag = determine_tag(r); hot_lead = determine_hot_lead(r)
\* (zoom_process_high_engagement_leads.py lines 89-90)
ClassifyZoomUtils ==
    /\ cpc = "classify"
    /\ script = "zoom_utils"
    /\ tag' = determine_tag(registrant)
    /\ hot_lead' = IF tag'.kind = "raise" THEN NotRun ELSE determine_hot_lead(registrant)
    /\ cpc' = "done"
    /\ UNCHANGED <<registrant, script>>
    /\ UNCHANGED ClsOthers

\* low_engagement_replay_data.py lines 52-53
ClassifyEverWebinar ==
    /\ cpc = "classify"
    /\ script = "everwebinar"
    /\ tag' = EW_determine_tag(registrant)
    /\ hot_lead' = IF tag'.kind = "raise" THEN NotRun
                   ELSE EW_determine_hot_lead(registrant)
    /\ cpc' = "done"
    /\ UNCHANGED <<registrant, script>>
    /\ UNCHANGED ClsOthers

ClsNext == ClassifyZoomUtils \/ ClassifyEverWebinar

SpecClassify == ClsInit /\ [][ClsNext]_vars

-----------------------------------------------------------------------------
(* zoom_process_high_engagement_leads.process_high_engagement_attendees    *)

\* " ".join(parts)
RECURSIVE Join(_)
Join(parts) ==
    IF Len(parts) = 0 THEN <<>>
    ELSE IF Len(parts) = 1 THEN parts[1]
    ELSE parts[1] \o <<" ">> \o Join(Tail(parts))

IsNone(v) == v.type = "NoneType"

\* "not v" for the values a session holds under registrant_id / user_email
Falsy(v) == IsNone(v) \/ (v.type = "str" /\ v.val = <<>>)

\* PersonKey without the strip() tests: a whitespace-only value is a key
PersonKey_NoStrip(session) ==
    LET registrant_id == Get(session.registrant_id, PyNone)
    IN IF ~Falsy(registrant_id) THEN registrant_id
       ELSE LET user_email == Get(session.user_email, PyNone)
            IN IF ~Falsy(user_email) THEN user_email ELSE PyNone

\* lines 42-53: the grouping key of a session, or None when it is skipped
PersonKey(session) ==
    LET registrant_id == Get(session.registrant_id, PyNone)
    IN IF ~(Falsy(registrant_id) \/ Strip(registrant_id.val) = <<>>)
       THEN registrant_id
       ELSE LET user_email == Get(session.user_email, PyNone)
            IN IF ~Falsy(user_email) /\ Strip(user_email.val) # <<>>
               THEN user_email
               ELSE PyNone

\* lines 58-60
FirstNameOf(name_from_session) ==
    IF name_from_session # <<>> THEN Split(name_from_session, " ")[1] ELSE <<>>

LastNameOf(name_from_session) ==
    IF Contains(name_from_session, " ")
    THEN Join(Tail(Split(name_from_session, " ")))
    ELSE <<>>

\* lines 62-69
NewAttendee(person_key, session) ==
    LET name_from_session == Get(session.name, PyStr(<<>>)).val
    IN [key |-> person_key.val,
        first_name |-> FirstNameOf(name_from_session),
        last_name |-> LastNameOf(name_from_session),
        email |-> Get(session.user_email, PyStr(<<>>)),
        registrant_id_used_as_key |-> person_key.val,
        total_duration_seconds |-> Get(session.duration, PyNum(0)).val,
        attended_live |-> Yes]

KeyIndex(agg, k) == {n \in 1..Len(agg) : agg[n].key = k}

\* AddSession with "=" for "+=": a later session replaces the total
AddSession_Overwrite(agg, session) ==
    LET person_key == PersonKey(session)
    IN IF IsNone(person_key) THEN agg
       ELSE IF KeyIndex(agg, person_key.val) = {}
       THEN Append(agg, NewAttendee(person_key, session))
       ELSE LET n == CHOOSE n \in KeyIndex(agg, person_key.val) : TRUE
            IN [agg EXCEPT ![n].total_duration_seconds =
                               Get(session.duration, PyNum(0)).val]

\* AddSession that rebuilds the record from every session of the key
AddSession_LastSeen(agg, session) ==
    LET person_key == PersonKey(session)
    IN IF IsNone(person_key) THEN agg
       ELSE IF KeyIndex(agg, person_key.val) = {}
       THEN Append(agg, NewAttendee(person_key, session))
       ELSE LET n == CHOOSE n \in KeyIndex(agg, person_key.val) : TRUE
            IN [agg EXCEPT ![n] =
                    [NewAttendee(person_key, session) EXCEPT
                        !.total_duration_seconds =
                            agg[n].total_duration_seconds
                                + Get(session.duration, PyNum(0)).val]]

\* lines 41-71: one pass of the aggregation loop
AddSession(agg, session) ==
    LET person_key == PersonKey(session)
    IN IF IsNone(person_key) THEN agg
       ELSE IF KeyIndex(agg, person_key.val) = {}
       THEN Append(agg, NewAttendee(person_key, session))
       ELSE LET n == CHOOSE n \in KeyIndex(agg, person_key.val) : TRUE
            IN [agg EXCEPT ![n].total_duration_seconds =
                               @ + Get(session.duration, PyNum(0)).val]

\* lines 79-87
RegistrantMock(attendee_data) ==
    [first_name |-> PyStr(attendee_data.first_name),
     last_name |-> PyStr(attendee_data.last_name),
     email |-> attendee_data.email,
     phone_number |-> PyNone,
     attended_live |-> PyStr(Yes),
     time_live |-> PyStr(FormatTimeLive(attendee_data.total_duration_seconds)),
     zoom_id |-> PyStr(attendee_data.registrant_id_used_as_key)]

PyTag(s) == [type |-> "str", val |-> s]

\* the payload cleaned of every falsy value (None, '' and 0) instead
GhlPayload_DropFalsy(registrant_data_, tag_, purchased, hot, webinar_id, occurrence_id) ==
    LET payload ==
            [webinar_id |-> webinar_id,
             schedule_id |-> occurrence_id,
             first_name |-> registrant_data_.first_name,
             last_name |-> registrant_data_.last_name,
             email |-> registrant_data_.email,
             phone |-> registrant_data_.phone_number,
             tag |-> PyTag(tag_),
             purchased |-> PyNum(purchased),
             hot_lead |-> PyNum(hot),
             time_live |-> registrant_data_.time_live,
             attended_live_api_value |-> registrant_data_.attended_live,
             zoom_registrant_id |-> registrant_data_.zoom_id]
    IN [k \in {k \in DOMAIN payload :
                  ~(\/ IsNone(payload[k])
                    \/ k # "tag" /\ payload[k].type = "str" /\ payload[k].val = <<>>
                    \/ payload[k].type = "int" /\ payload[k].val = 0)}
           |-> payload[k]]

\* zoom_utils.send_to_ghl lines 164-178: the payload and its cleaning
GhlPayload(registrant_data_, tag_, purchased, hot, webinar_id, occurrence_id) ==
    LET payload ==
            [webinar_id |-> webinar_id,
             schedule_id |-> occurrence_id,
             first_name |-> registrant_data_.first_name,
             last_name |-> registrant_data_.last_name,
             email |-> registrant_data_.email,
             phone |-> registrant_data_.phone_number,
             tag |-> PyTag(tag_),
             purchased |-> PyNum(purchased),
             hot_lead |-> PyNum(hot),
             time_live |-> registrant_data_.time_live,
             attended_live_api_value |-> registrant_data_.attended_live,
             zoom_registrant_id |-> registrant_data_.zoom_id]
    IN [k \in {k \in DOMAIN payload : ~IsNone(payload[k])} |-> payload[k]]

WebinarId == PyStr(<<"W", "1">>)
OccurrenceId == PyNone

-----------------------------------------------------------------------------
(* SpecAggregate: inputs *)

MaxSessions == 3
MaxPages == 3

Sess(rid, email, name, dur, internal) ==
    [registrant_id |-> rid, user_email |-> email, name |-> name, duration |-> dur,
     internal_user |-> internal]

R1 == PyStr(<<"R", "1">>)
R2 == PyStr(<<"R", "2">>)
R3 == PyStr(<<"R", "3">>)
EmailA == PyStr(<<"a", "@", "x">>)
EmailB == PyStr(<<"b", "@", "x">>)
EmailC == PyStr(<<"c", "@", "x">>)
AnnLee == PyStr(<<"A", "n", "n", " ", "L", "e", "e">>)
Bob == PyStr(<<"B", "o", "b">>)
SamStaff == PyStr(<<"S", "a", "m", " ", "S">>)
CarlHelgesson ==
    PyStr(<<"C", "a", "r", "l", " ", "H", "e", "l", "g", "e", "s", "s", "o", "n">>)

\* participant entries as the Zoom report returns them
RawSessions ==
    { Sess(R1, EmailA, AnnLee, PyNum(100), FALSE),
      Sess(R1, EmailB, Bob, PyNum(200), FALSE),
      Sess(R1, EmailA, AnnLee, PyNum(5300), FALSE),
      Sess(R1, EmailA, AnnLee, PyNum(86400), FALSE),
      Sess(R2, EmailB, Bob, PyNum(7200), FALSE),
      Sess(R2, Missing, Missing, Missing, FALSE),
      Sess(Missing, EmailA, AnnLee, PyNum(2700), FALSE),
      Sess(PyStr(<<>>), EmailA, Bob, PyNum(2700), FALSE),
      Sess(PyStr(<<" ">>), EmailB, Bob, PyNum(5400), FALSE),
      Sess(Missing, Missing, Bob, PyNum(7200), FALSE),
      Sess(PyStr(<<>>), PyStr(<<" ">>), AnnLee, PyNum(5400), FALSE),
      Sess(R2, EmailB, SamStaff, PyNum(7200), TRUE),
      Sess(R3, EmailC, CarlHelgesson, PyNum(5400), TRUE) }

\* the items of one page of the report
PageItems == {<<>>} \cup {<<s>> : s \in RawSessions}

AggInit ==
    /\ page_count = 0
    /\ all_items = <<>>
    /\ all_participant_sessions = <<>>
    /\ si = 0
    /\ aggregated_attendees = <<>>
    /\ di = 0
    /\ ghl_posts = <<>>
    /\ attendees_sent_count = 0
    /\ apc = "fetch"
    /\ TimeIdle
    /\ ClsIdle
    /\ PreIdle
    /\ LaterIdle
    /\ LastIdle

\* zoom_utils.make_zoom_api_request lines 79-106: one page is requested and
\* answered; without a next_page_token the items are returned and the
\* aggregation loop starts (lines 32-40)
FetchPage ==
    /\ apc = "fetch"
    /\ page_count < MaxPages
    /\ \E items \in PageItems, next_page_token \in BOOLEAN :
        /\ Len(all_items) + Len(items) <= MaxSessions
        /\ next_page_token => page_count + 1 < MaxPages
        /\ IF next_page_token
           THEN /\ page_count' = page_count + 1
                /\ all_items' = all_items \o items
                /\ UNCHANGED <<all_participant_sessions, apc>>
           ELSE /\ page_count' = 0
                /\ all_items' = <<>>
                /\ all_participant_sessions' = all_items \o items
                /\ apc' = IF Len(all_items \o items) = 0 THEN "done" ELSE "aggregate"
    /\ UNCHANGED <<si, aggregated_attendees, di, ghl_posts, attendees_sent_count>>
    /\ UNCHANGED AggOthers

\* make_zoom_api_request lines 108-116: an HTTP error, a transport failure or
\* an undecodable body on any page returns None, and the caller gives up
\* (zoom_process_high_engagement_leads.py lines 34-36)
FetchFail ==
    /\ apc = "fetch"
    /\ page_count < MaxPages
    /\ page_count' = 0
    /\ all_items' = <<>>
    /\ apc' = "failed"
    /\ UNCHANGED <<all_participant_sessions, si, aggregated_attendees, di, ghl_posts,
                   attendees_sent_count>>
    /\ UNCHANGED AggOthers

\* lines 41-71: the loop body for the next session, and the loop's exit
AggregateSession ==
    /\ apc = "aggregate"
    /\ si < Len(all_participant_sessions)
    /\ aggregated_attendees' =
           AddSession(aggregated_attendees, all_participant_sessions[si + 1])
    /\ si' = si + 1
    /\ apc' = IF si + 1 < Len(all_participant_sessions) THEN "aggregate"
              ELSE IF Len(aggregated_attendees') = 0 THEN "done"
              ELSE "deliver"
    /\ UNCHANGED <<page_count, all_items, all_participant_sessions, di, ghl_posts,
                   attendees_sent_count>>
    /\ UNCHANGED AggOthers

\* lines 75-103: the next aggregated attendee is classified and, when tagged
\* 'high engagement', handed to send_to_ghl, whose POST is made whatever the
\* webhook then answers (zoom_utils.py lines 180-189 only log the answer)
DeliverAttendee ==
    /\ apc = "deliver"
    /\ di < Len(aggregated_attendees)
    /\ LET registrant_mock == RegistrantMock(aggregated_attendees[di + 1])
           tag_ == determine_tag(registrant_mock)
           hot_lead_ == determine_hot_lead(registrant_mock)
       IN IF tag_ = Return("high engagement")
          THEN /\ ghl_posts' =
                      Append(ghl_posts,
                             GhlPayload(registrant_mock, tag_.value, 0, hot_lead_.value,
                                        WebinarId, OccurrenceId))
               /\ attendees_sent_count' = attendees_sent_count + 1
          ELSE UNCHANGED <<ghl_posts, attendees_sent_count>>
    /\ di' = di + 1
    /\ apc' = IF di + 1 < Len(aggregated_attendees) THEN "deliver" ELSE "done"
    /\ UNCHANGED <<page_count, all_items, all_participant_sessions, si,
                   aggregated_attendees>>
    /\ UNCHANGED AggOthers

AggNext == FetchPage \/ FetchFail \/ AggregateSession \/ DeliverAttendee

SpecAggregate == AggInit /\ [][AggNext]_vars

-----------------------------------------------------------------------------
(* zoom_participants_data_preprocessor.process_zoom_participants           *)

\* datetime + timedelta(hours=1), within one month
AddHour(dt) ==
    IF dt.hour = 23 THEN [dt EXCEPT !.day = @ + 1, !.hour = 0]
    ELSE [dt EXCEPT !.hour = @ + 1]

\* strftime('%Y-%m-%d')
FormatDate(dt) ==
    DecDigits(dt.year) \o <<"-">> \o TwoDigits(dt.month) \o <<"-">> \o TwoDigits(dt.day)

\* strftime('%Y-%m-%d %I:%M %p')
FormatEndTime(dt) ==
    FormatDate(dt) \o <<" ">>
        \o TwoDigits(IF dt.hour % 12 = 0 THEN 12 ELSE dt.hour % 12)
        \o <<":">> \o TwoDigits(dt.minute) \o <<" ">>
        \o (IF dt.hour < 12 THEN <<"A", "M">> ELSE <<"P", "M">>)

\* FilterInternal without the filter: every participant is kept
FilterInternal_KeepAll(participants) == participants

\* lines 21-24
FilterInternal(participants) ==
    SelectSeq(participants,
              LAMBDA participant :
                  ~participant.internal_user \/ participant.name = CarlHelgesson)

UniqueIds(unique) == {unique[n].registrant_id : n \in 1..Len(unique)}

\* AddUnique storing the participant seen last under its registrant_id
AddUnique_KeepLast(unique, participant) ==
    IF participant.registrant_id \notin UniqueIds(unique)
    THEN Append(unique, [registrant_id |-> participant.registrant_id,
                         participant |-> participant])
    ELSE [n \in 1..Len(unique) |->
              IF unique[n].registrant_id = participant.registrant_id
              THEN [unique[n] EXCEPT !.participant = participant]
              ELSE unique[n]]

\* lines 28-30: one pass of the de-duplication loop
AddUnique(unique, participant) ==
    IF participant.registrant_id \notin UniqueIds(unique)
    THEN Append(unique, [registrant_id |-> participant.registrant_id,
                         participant |-> participant])
    ELSE unique

\* lines 39-52: the simplified record of one participant
Simplified(participant, carl_done) ==
    LET adjusted_join_time == AddHour(participant.join_time)
        adjusted_leave_time == AddHour(participant.leave_time)
        processed_participant ==
            [name |-> participant.name,
             user_email |-> participant.user_email,
             webinar_date |-> PyStr(FormatDate(adjusted_join_time)),
             duration |-> participant.duration,
             webinar_end_time |->
                 IF participant.name = CarlHelgesson /\ ~carl_done
                 THEN PyStr(FormatEndTime(adjusted_leave_time))
                 ELSE Missing]
    IN [k \in {k \in DOMAIN processed_participant :
                   processed_participant[k] # Missing} |-> processed_participant[k]]

-----------------------------------------------------------------------------
(* SpecPreprocess: inputs *)

MaxParticipants == 3

DateTime(d, h, m) == [year |-> 2025, month |-> 3, day |-> d, hour |-> h, minute |-> m]

Part(rid, name, email, dur, internal, join, leave) ==
    [registrant_id |-> rid, name |-> name, user_email |-> email, duration |-> PyNum(dur),
     internal_user |-> internal, join_time |-> join, leave_time |-> leave]

CarlLower ==
    PyStr(<<"c", "a", "r", "l", " ", "h", "e", "l", "g", "e", "s", "s", "o", "n">>)

Participants ==
    { Part(R3, CarlHelgesson, EmailC, 9998, TRUE, DateTime(20, 18, 29), DateTime(20, 21, 15)),
      Part(R3, CarlHelgesson, EmailC, 120, TRUE, DateTime(20, 21, 20), DateTime(20, 23, 22)),
      Part(R1, AnnLee, EmailA, 4340, FALSE, DateTime(20, 18, 29), DateTime(20, 19, 41)),
      Part(R1, AnnLee, EmailA, 200, FALSE, DateTime(20, 19, 50), DateTime(20, 19, 53)),
      Part(R2, SamStaff, EmailB, 7200, TRUE, DateTime(20, 18, 0), DateTime(20, 20, 0)),
      Part(R2, Bob, EmailB, 5970, FALSE, DateTime(20, 23, 30), DateTime(21, 1, 9)),
      Part(R1, CarlLower, EmailC, 8032, TRUE, DateTime(20, 18, 29), DateTime(20, 20, 43)) }

PreInit ==
    /\ all_participants \in UNION {[1..n -> Participants] : n \in 0..MaxParticipants}
    /\ filtered_participants = <<>>
    /\ unique_participants = <<>>
    /\ ui = 0
    /\ carl_processed = FALSE
    /\ processed_participants = <<>>
    /\ oi = 0
    /\ ppc = "filter"
    /\ TimeIdle
    /\ ClsIdle
    /\ AggIdle
    /\ LaterIdle
    /\ LastIdle

\* lines 21-27: the list comprehension
PreFilter ==
    /\ ppc = "filter"
    /\ filtered_participants' = FilterInternal(all_participants)
    /\ ppc' = IF Len(filtered_participants') = 0 THEN "done" ELSE "dedup"
    /\ UNCHANGED <<all_participants, unique_participants, ui, carl_processed,
                   processed_participants, oi>>
    /\ UNCHANGED PreOthers

\* lines 28-36: the loop body for the next filtered participant
PreDedup ==
    /\ ppc = "dedup"
    /\ ui < Len(filtered_participants)
    /\ unique_participants' =
           AddUnique(unique_participants, filtered_participants[ui + 1])
    /\ ui' = ui + 1
    /\ ppc' = IF ui + 1 < Len(filtered_participants) THEN "dedup" ELSE "simplify"
    /\ UNCHANGED <<all_participants, filtered_participants, carl_processed,
                   processed_participants, oi>>
    /\ UNCHANGED PreOthers

\* lines 37-56: the loop body for the next unique participant
PreSimplify ==
    /\ ppc = "simplify"
    /\ oi < Len(unique_participants)
    /\ LET participant == unique_participants[oi + 1].participant
       IN /\ processed_participants' =
                 Append(processed_participants, Simplified(participant, carl_processed))
          /\ carl_processed' = (carl_processed \/ participant.name = CarlHelgesson)
    /\ oi' = oi + 1
    /\ ppc' = IF oi + 1 < Len(unique_participants) THEN "simplify" ELSE "done"
    /\ UNCHANGED <<all_participants, filtered_participants, unique_participants, ui>>
    /\ UNCHANGED PreOthers

PreNext == PreFilter \/ PreDedup \/ PreSimplify

SpecPreprocess == PreInit /\ [][PreNext]_vars

-----------------------------------------------------------------------------
(* SpecTime: properties *)

RenderRange == -11..11

Parsed == tpc = "done" /\ time_live_seconds = -1

\* the integers of RenderRange a part is the decimal rendering of (at most one)
Rendered(part) == {n \in RenderRange : Dec(n) = part}

RenderedValue(part) == CHOOSE n \in Rendered(part) : TRUE

\* C3: parse_time_to_seconds returns h*3600 + m*60 + s for every string of
\* three ':'-separated integer parts and m*60 + s for every string of two
\* ':'-separated integer parts; in particular for the decimal renderings
\* "h:m:s" and "m:s" of integers h, m, s.
C3_ParseSumsParts ==
    (Parsed /\ time_str.type = "str") =>
        LET parts == Split(time_str.val, ":")
        IN /\ (Len(parts) = 3 /\ \A i \in 1..3 : IntLiteralOK(parts[i])) =>
                  parse_result = Return(IntValue(parts[1]) * 3600
                                        + IntValue(parts[2]) * 60 + IntValue(parts[3]))
           /\ (Len(parts) = 2 /\ \A i \in 1..2 : IntLiteralOK(parts[i])) =>
                  parse_result = Return(IntValue(parts[1]) * 60 + IntValue(parts[2]))
           /\ (Len(parts) = 3 /\ \A i \in 1..3 : Rendered(parts[i]) # {}) =>
                  parse_result = Return(RenderedValue(parts[1]) * 3600
                                        + RenderedValue(parts[2]) * 60
                                        + RenderedValue(parts[3]))
           /\ (Len(parts) = 2 /\ \A i \in 1..2 : Rendered(parts[i]) # {}) =>
                  parse_result = Return(RenderedValue(parts[1]) * 60
                                        + RenderedValue(parts[2]))

C3_Witness ==
    /\ Parsed
    /\ time_str = PyStr(<<"1", "1", ":", "1", "0">>)
    /\ parse_result = Return(670)

\* the malformed inputs of C4
Malformed(v) ==
    \/ v.type # "str"
    \/ v.val = <<>>
    \/ ~Contains(v.val, ":")
    \/ Len(Split(v.val, ":")) \notin {2, 3}
    \/ \E i \in 1..Len(Split(v.val, ":")) : ~IntLiteralOK(Split(v.val, ":")[i])

\* C4: parse_time_to_seconds never raises, and returns the configured default
\* for a non-string value, the empty string, a string without ':', a string
\* with a part count other than 2 or 3, and a string with a non-numeric part.
C4_MalformedGivesDefault ==
    Parsed =>
        /\ parse_result.kind = "return"
        /\ Malformed(time_str) => parse_result = Return(default_seconds)

C4_Witness ==
    /\ Parsed
    /\ time_str = PyStr(<<"1", ":", "a">>)
    /\ default_seconds = 7
    /\ parse_result = Return(7)

\* C5 as claimed: a duration formatted with strftime('%H:%M:%S', gmtime(s))
\* and parsed back with parse_time_to_seconds yields s again.
C5_RoundTrip ==
    (tpc = "done" /\ time_live_seconds >= 0) =>
        parse_result = Return(time_live_seconds)

-----------------------------------------------------------------------------
(* SpecClassify: properties *)

Classified(s) == cpc = "done" /\ script = s

\* the attendance flag as the rule reads it: str(value).lower() = "yes"
AttendedYes(r) ==
    \/ r.attended_live \in {PyStr(Yes), PyStr(<<"Y", "e", "s">>), PyStr(<<"Y", "E", "S">>)}

\* the fixed rule of C1 on t seconds
RuleTag(attended, t) ==
    IF ~attended THEN "no-show"
    ELSE IF t >= 5400 THEN "high engagement" ELSE "low engagement"

RuleHotLead(attended, t) == IF attended /\ t >= 7200 THEN 1 ELSE 0

\* C1: determine_tag and determine_hot_lead implement the fixed rule: not
\* attended -> 'no-show', 0; attended with t = parsed time_live seconds:
\* t >= 7200 -> 'high engagement', 1; 5400 <= t < 7200 -> 'high engagement', 0;
\* t < 5400 -> 'low engagement', 0 (5399 low, 5400 high, 7199 high not hot,
\* 7200 high and hot).
C1_ClassificationRule ==
    Classified("zoom_utils") =>
        LET t == parse_time_to_seconds(Get(registrant.time_live, DefaultTimeLive), 0).value
            a == AttendedYes(registrant)
        IN /\ tag = Return(RuleTag(a, t))
           /\ hot_lead = Return(RuleHotLead(a, t))
           /\ \A d \in BoundaryDurations :
                 (a /\ registrant.time_live = PyStr(FormatTimeLive(d))) =>
                     /\ tag = Return(RuleTag(TRUE, d))
                     /\ hot_lead = Return(RuleHotLead(TRUE, d))

C1_Witness ==
    /\ Classified("zoom_utils")
    /\ registrant.attended_live = PyStr(<<"Y", "e", "s">>)
    /\ registrant.time_live = PyStr(<<"0", "2", ":", "0", "0", ":", "0", "0">>)
    /\ tag = Return("high engagement")
    /\ hot_lead = Return(1)

\* C2 as claimed: in the EverWebinar script determine_hot_lead never returns 1
\* for a registrant that determine_tag tags 'no-show'.
C2_NoShowNeverHot ==
    (Classified("everwebinar") /\ tag = Return("no-show")) => hot_lead # Return(1)

-----------------------------------------------------------------------------
(* SpecAggregate: properties *)

\* the sessions the aggregation loop has processed
Processed == SubSeq(all_participant_sessions, 1, si)

\* missing, None, empty or whitespace-only
Blank(v) ==
    \/ v.type \in {"missing", "NoneType"}
    \/ v.type = "str" /\ \A i \in 1..Len(v.val) : v.val[i] = " "

NoKey == <<>>

\* the grouping key the claims give a session
ClaimKey(s) ==
    IF ~Blank(s.registrant_id) THEN s.registrant_id.val
    ELSE IF ~Blank(s.user_email) THEN s.user_email.val
    ELSE NoKey

DurationOf(s) == IF s.duration.type = "missing" THEN 0 ELSE s.duration.val

RECURSIVE SumOfDurations(_)
SumOfDurations(P) ==
    IF Len(P) = 0 THEN 0 ELSE DurationOf(P[1]) + SumOfDurations(Tail(P))

\* sum of the durations of the sessions of P that satisfy Counted and have key k
SumDurations(P, k, Counted(_)) ==
    SumOfDurations(SelectSeq(P, LAMBDA s : ClaimKey(s) = k /\ Counted(s)))

AnySession(s) == TRUE

AggKeys == {aggregated_attendees[n].key : n \in 1..Len(aggregated_attendees)}

FirstSeen(k) ==
    CHOOSE n \in 1..Len(Processed) :
        /\ ClaimKey(Processed[n]) = k
        /\ \A m \in 1..(n - 1) : ClaimKey(Processed[m]) # k

AggPosition(k) == CHOOSE n \in 1..Len(aggregated_attendees) : aggregated_attendees[n].key = k

PostKey(post) == post.zoom_registrant_id.val

C6_OnePerKeySummed ==
    /\ AggKeys = {ClaimKey(Processed[n]) : n \in 1..Len(Processed)} \ {NoKey}
    /\ \A m, n \in 1..Len(aggregated_attendees) :
           aggregated_attendees[m].key = aggregated_attendees[n].key => m = n
    /\ \A n \in 1..Len(aggregated_attendees) :
           aggregated_attendees[n].total_duration_seconds
               = SumDurations(Processed, aggregated_attendees[n].key, AnySession)

C6_TotalsNeverDecrease ==
    \A n \in 1..Len(aggregated_attendees) :
        /\ n <= Len(aggregated_attendees')
        /\ aggregated_attendees'[n].key = aggregated_attendees[n].key
        /\ aggregated_attendees'[n].total_duration_seconds
               >= aggregated_attendees[n].total_duration_seconds

\* C6: after any prefix of the session list has been processed there is
\* exactly one aggregated record per distinct person key seen so far, its
\* total_duration_seconds is the sum of the durations of all processed
\* sessions with that key (duplicates included), and with non-negative
\* durations no total decreases as further sessions are processed.
C6_SumPerKey == [](C6_OnePerKeySummed) /\ [][C6_TotalsNeverDecrease]_vars

C6_Witness ==
    /\ si = 2
    /\ ClaimKey(Processed[1]) = R1.val /\ DurationOf(Processed[1]) = 100
    /\ ClaimKey(Processed[2]) = R1.val /\ DurationOf(Processed[2]) = 200
    /\ Len(aggregated_attendees) = 1
    /\ aggregated_attendees[1].total_duration_seconds = 300

\* C7: a session is grouped under its registrant_id when that is non-blank,
\* under its user_email when registrant_id is missing, empty or whitespace-only,
\* and a session with both blank is dropped: it contributes to no aggregated
\* record and to no delivery.
C7_GroupingKey ==
    /\ \A n \in 1..Len(Processed) :
          LET s == Processed[n]
          IN /\ ~Blank(s.registrant_id) => s.registrant_id.val \in AggKeys
             /\ (Blank(s.registrant_id) /\ ~Blank(s.user_email)) =>
                    s.user_email.val \in AggKeys
    /\ \A k \in AggKeys : \E n \in 1..Len(Processed) : ClaimKey(Processed[n]) = k
    /\ \A n \in 1..Len(aggregated_attendees) :
          aggregated_attendees[n].total_duration_seconds
              = SumDurations(Processed, aggregated_attendees[n].key, AnySession)
    /\ \A p \in 1..Len(ghl_posts) :
          \E n \in 1..Len(Processed) :
              ClaimKey(Processed[n]) # NoKey /\ ClaimKey(Processed[n]) = PostKey(ghl_posts[p])

C7_Witness ==
    /\ apc = "done"
    /\ \E m, n \in 1..Len(Processed) :
          /\ ClaimKey(Processed[m]) = NoKey
          /\ DurationOf(Processed[m]) >= 5400
          /\ Blank(Processed[n].registrant_id)
          /\ Processed[n].registrant_id.type = "str"
          /\ Processed[n].registrant_id.val # <<>>
          /\ \E p \in 1..Len(ghl_posts) : PostKey(ghl_posts[p]) = Processed[n].user_email.val
    /\ Len(ghl_posts) = 1

\* C8: first_name, last_name and email of an aggregated record are those of
\* the first session seen for its key, whatever later sessions of the key
\* hold, and aggregated records are classified and delivered in the order in
\* which their keys first appeared in the session list.
C8_FirstSessionFields ==
    /\ \A n \in 1..Len(aggregated_attendees) :
          LET a == aggregated_attendees[n]
              s == Processed[FirstSeen(a.key)]
              name == IF s.name.type = "missing" THEN <<>> ELSE s.name.val
          IN /\ a.first_name = FirstNameOf(name)
             /\ a.last_name = LastNameOf(name)
             /\ a.email = (IF s.user_email.type = "missing" THEN PyStr(<<>>)
                           ELSE s.user_email)
    /\ \A m, n \in 1..Len(aggregated_attendees) :
          m < n => FirstSeen(aggregated_attendees[m].key)
                       < FirstSeen(aggregated_attendees[n].key)
    /\ \A p \in 1..Len(ghl_posts) :
          /\ PostKey(ghl_posts[p]) \in AggKeys
          /\ AggPosition(PostKey(ghl_posts[p])) <= di
          /\ LET a == aggregated_attendees[AggPosition(PostKey(ghl_posts[p]))]
             IN /\ ghl_posts[p].first_name = PyStr(a.first_name)
                /\ ghl_posts[p].last_name = PyStr(a.last_name)
                /\ ghl_posts[p].email = a.email
    /\ \A p, q \in 1..Len(ghl_posts) :
          p < q => AggPosition(PostKey(ghl_posts[p])) < AggPosition(PostKey(ghl_posts[q]))

C8_Witness ==
    /\ apc = "done"
    /\ Len(Processed) >= 2
    /\ ClaimKey(Processed[1]) = ClaimKey(Processed[2])
    /\ Processed[1].name = AnnLee /\ Processed[1].user_email = EmailA
    /\ Processed[2].name = Bob /\ Processed[2].user_email = EmailB
    /\ Len(ghl_posts) >= 1
    /\ ghl_posts[1].first_name = PyStr(<<"A", "n", "n">>)
    /\ ghl_posts[1].last_name = PyStr(<<"L", "e", "e">>)
    /\ ghl_posts[1].email = EmailA

\* the sessions the filter of C10 keeps: not internal, or the VIP
Kept(s) == ~s.internal_user \/ s.name = CarlHelgesson

\* C10 as claimed: an internal, non-VIP session never contributes to an
\* aggregated total, and a person with only such sessions is never delivered
\* to the webhook.
C10_InternalSessionsDropped ==
    /\ \A n \in 1..Len(aggregated_attendees) :
          aggregated_attendees[n].total_duration_seconds
              = SumDurations(Processed, aggregated_attendees[n].key, Kept)
    /\ \A p \in 1..Len(ghl_posts) :
          \E n \in 1..Len(Processed) :
              Kept(Processed[n]) /\ ClaimKey(Processed[n]) = PostKey(ghl_posts[p])

-----------------------------------------------------------------------------
(* SpecPreprocess: properties *)

\* the participants C9 lets through
Allowed(p) == ~p.internal_user \/ p.name = CarlHelgesson

AllowedInputs == {n \in 1..Len(all_participants) : Allowed(all_participants[n])}

\* output record out carries the data of participant p
From(out, p) ==
    /\ out.name = p.name
    /\ out.user_email = p.user_email
    /\ out.duration = p.duration
    /\ out.webinar_date = PyStr(FormatDate(AddHour(p.join_time)))

\* C9: process_zoom_participants excludes every participant with
\* internal_user true whose name is not exactly 'Carl Helgesson': every output
\* record originates from a participant that is non-internal or named
\* 'Carl Helgesson', none from an excluded one, and a registrant_id reaches the
\* output only if a participant with that id is non-internal or so named.
C9_InternalExcluded ==
    /\ \A k \in 1..Len(processed_participants) :
          /\ \E n \in AllowedInputs : From(processed_participants[k], all_participants[n])
          /\ \A n \in 1..Len(all_participants) :
                 From(processed_participants[k], all_participants[n]) => n \in AllowedInputs
          /\ unique_participants[k].registrant_id
                 \in {all_participants[n].registrant_id : n \in AllowedInputs}
    /\ \A k \in 1..Len(unique_participants) :
          unique_participants[k].registrant_id
              \in {all_participants[n].registrant_id : n \in AllowedInputs}
    /\ Len(processed_participants) <= Len(unique_participants)

C9_Witness ==
    /\ ppc = "done"
    /\ Len(all_participants) = 3
    /\ all_participants[1].internal_user /\ all_participants[1].name = SamStaff
    /\ all_participants[2].internal_user /\ all_participants[2].name = CarlLower
    /\ all_participants[3].registrant_id = all_participants[1].registrant_id
    /\ ~all_participants[3].internal_user
    /\ Len(processed_participants) = 1
    /\ processed_participants[1].name = Bob

-----------------------------------------------------------------------------
(* SpecName: the two name splits                                           *)

\* s.split(): the maximal runs of non-whitespace characters
RECURSIVE SplitWhitespace(_)
SplitWhitespace(s) ==
    LET t == LStrip(s)
    IN IF t = <<>> THEN <<>>
       ELSE IF ~Contains(t, " ") THEN <<t>>
       ELSE LET i == FirstIndex(t, " ")
            IN <<SubSeq(t, 1, i - 1)>> \o SplitWhitespace(SubSeq(t, i + 1, Len(t)))

\* amazon_gung.split_name
split_name(name) ==
    LET name_parts == SplitWhitespace(name)
    IN [first_name |-> IF Len(name_parts) > 0 THEN name_parts[1] ELSE <<>>,
        last_name |-> IF Len(name_parts) > 1 THEN Join(Tail(name_parts)) ELSE <<>>]

MaxNameLen == 4

NameAlphabet == {" ", "a", "b"}

Mariana == <<"M", "a", "r", "i", "a", "n", "a">>

\* display names: every short string of letters and spaces, and two real ones
DisplayNames ==
    UNION {[1..n -> NameAlphabet] : n \in 0..MaxNameLen}
        \cup {CarlHelgesson.val, Mariana}

NameInit ==
    /\ full_name \in DisplayNames
    /\ name_script \in {"aggregator", "amazon_gung"}
    /\ first_name = <<>>
    /\ last_name = <<>>
    /\ npc = "split"
    /\ EarlierIdle
    /\ LastIdle
    /\ SendIdle
    /\ ZoomIdle
    /\ LowIdle

\* zoom_process_high_engagement_leads.py lines 57-60, for a session's name
SplitAggregator ==
    /\ npc = "split"
    /\ name_script = "aggregator"
    /\ first_name' = FirstNameOf(full_name)
    /\ last_name' = LastNameOf(full_name)
    /\ npc' = "done"
    /\ UNCHANGED <<full_name, name_script>>
    /\ UNCHANGED NameOthers

\* amazon_gung.py line 70: first_name, last_name = split_name(full_name)
SplitAmazonGung ==
    /\ npc = "split"
    /\ name_script = "amazon_gung"
    /\ first_name' = split_name(full_name).first_name
    /\ last_name' = split_name(full_name).last_name
    /\ npc' = "done"
    /\ UNCHANGED <<full_name, name_script>>
    /\ UNCHANGED NameOthers

NameNext == SplitAggregator \/ SplitAmazonGung

SpecName == NameInit /\ [][NameNext]_vars

\* the whitespace-delimited tokens of a display name
NameTokens == SplitWhitespace(full_name)

\* C11 as claimed: for every display name (empty, one token, several tokens,
\* leading, trailing or repeated spaces) the name split gives first_name = the
\* first whitespace-delimited token and last_name = the remaining tokens
\* joined by single spaces, each the empty string when there is none.
C11_NameSplit ==
    npc = "done" =>
        /\ first_name = (IF Len(NameTokens) > 0 THEN NameTokens[1] ELSE <<>>)
        /\ last_name = (IF Len(NameTokens) > 1 THEN Join(Tail(NameTokens)) ELSE <<>>)

-----------------------------------------------------------------------------
(* SpecSend: send_to_ghl of zoom_utils.py and of                           *)
(* webinarjam_retrieve_attendees.py, called once per lead by the loop of   *)
(* its script                                                              *)

\* what can come of requests.post(..., timeout=30) and raise_for_status()
Answers == {"200", "400", "429", "500", "timeout", "connection", "other"}

\* the exception the try block ends with: raise_for_status raises HTTPError on
\* 4xx and 5xx, requests.post raises Timeout or ConnectionError (both
\* RequestException), anything else is some other Exception
PostException(answer) ==
    CASE answer = "200" -> "none"
      [] answer \in {"400", "429", "500"} -> "HTTPError"
      [] answer \in {"timeout", "connection"} -> "RequestException"
      [] OTHER -> "Exception"

\* the except clauses without the last one
Handled_NoCatchAll(exc) == exc \in {"HTTPError", "RequestException"}

\* zoom_utils.py lines 184-189, webinarjam_retrieve_attendees.py lines 135-140
Handled(exc) == exc \in {"HTTPError", "RequestException", "Exception"}

\* the argument of time.sleep
SleepSeconds(script_) == IF script_ = "zoom_utils" THEN 1 ELSE 2

\* a sleep inside the try block, after the success log
SleepAfterTry_OnlyOnSuccess(script_, exc) ==
    IF exc = "none" THEN SleepSeconds(script_) ELSE 0

\* zoom_utils.py line 191, webinarjam_retrieve_attendees.py line 142: the
\* sleep follows the try statement
SleepAfterTry(script_, exc) == SleepSeconds(script_)

\* one call of send_to_ghl: the answers its POSTs got, what it logged, how it
\* ended and how long it slept
send_to_ghl(script_, url, answer) ==
    IF script_ = "zoom_utils" /\ ~url
    THEN [answers |-> <<>>, log |-> "error", result |-> Return("None"), slept |-> 0]
    ELSE LET exc == PostException(answer)
         IN IF exc = "none"
            THEN [answers |-> <<answer>>, log |-> "info", result |-> Return("None"),
                  slept |-> SleepAfterTry(script_, exc)]
            ELSE IF Handled(exc)
            THEN [answers |-> <<answer>>, log |-> "error", result |-> Return("None"),
                  slept |-> SleepAfterTry(script_, exc)]
            ELSE [answers |-> <<answer>>, log |-> "none", result |-> Raise(exc),
                  slept |-> 0]

MaxLeads == 2

\* seconds a POST takes to be answered
Latencies == {0, 1}

SendInit ==
    /\ send_script \in {"zoom_utils", "webinarjam"}
    /\ ghl_target_url \in BOOLEAN
    /\ send_script = "webinarjam" => ghl_target_url
    /\ webhook_answers \in [1..MaxLeads + 1 -> Answers]
    /\ clock = 0
    /\ ghl_calls = <<>>
    /\ send_result = NotRun
    /\ spc = "send"
    /\ EarlierIdle
    /\ LastIdle
    /\ NameIdle
    /\ ZoomIdle
    /\ LowIdle

\* the loop body for the next lead: send_to_ghl posts it at the current time,
\* is answered after the latency, logs and sleeps; an exception it lets through
\* ends the loop
SendLead(script_) ==
    /\ spc = "send"
    /\ send_script = script_
    /\ Len(ghl_calls) < MaxLeads
    /\ \E latency \in Latencies :
        LET lead == Len(ghl_calls) + 1
            r == send_to_ghl(script_, ghl_target_url, webhook_answers[lead])
        IN /\ ghl_calls' =
                  Append(ghl_calls,
                         [lead |-> lead, at |-> clock, answers |-> r.answers,
                          log |-> r.log, slept |-> r.slept])
           /\ clock' = clock + (IF Len(r.answers) > 0 THEN latency ELSE 0) + r.slept
           /\ send_result' = r.result
           /\ spc' = IF r.result.kind = "raise" THEN "aborted"
                     ELSE IF lead = MaxLeads THEN "done"
                     ELSE "send"
    /\ UNCHANGED <<send_script, ghl_target_url, webhook_answers>>
    /\ UNCHANGED SendOthers

\* zoom_process_high_engagement_leads.py lines 91-99
SendZoomUtils == SendLead("zoom_utils")

\* webinarjam_retrieve_attendees.py line 229
SendWebinarJam == SendLead("webinarjam")

SendNext == SendZoomUtils \/ SendWebinarJam

SpecSend == SendInit /\ [][SendNext]_vars

-----------------------------------------------------------------------------
(* SpecSend: properties *)

\* the call made a POST
Posted(call) == Len(call.answers) > 0

\* C12: zoom_utils.send_to_ghl never raises past its boundary: whatever the
\* webhook call comes to (2xx, 4xx, 5xx, timeout, connection failure, any
\* other exception) and also without a webhook URL, the call logs and returns
\* normally, and the caller's loop goes on to the next lead.
C12_SendNeverRaises ==
    send_script = "zoom_utils" =>
        /\ send_result.kind # "raise"
        /\ spc # "aborted"
        /\ \A i \in 1..Len(ghl_calls) : ghl_calls[i].log \in {"info", "error"}
        /\ Len(ghl_calls) < MaxLeads => spc = "send"

C12_Witness ==
    /\ send_script = "zoom_utils"
    /\ Len(ghl_calls) = 2
    /\ ghl_calls[1].answers = <<"other">>
    /\ ghl_calls[1].log = "error"
    /\ Posted(ghl_calls[2])
    /\ send_result = Return("None")

\* POSTs of a lead that the webhook accepted
Deliveries(lead) ==
    Cardinality({<<i, k>> \in (1..Len(ghl_calls)) \X (1..2) :
                    /\ ghl_calls[i].lead = lead
                    /\ k <= Len(ghl_calls[i].answers)
                    /\ ghl_calls[i].answers[k] = "200"})

\* C13 as claimed: when the webhook answers a lead's POST with 429 and would
\* answer the next POST with 200, send_to_ghl waits and sends the lead again,
\* so once the call is over the lead has exactly one successful delivery.
C13_RetryAfter429 ==
    \A i \in 1..Len(ghl_calls) :
        (/\ Posted(ghl_calls[i])
         /\ ghl_calls[i].answers[1] = "429"
         /\ webhook_answers[i + 1] = "200")
            => Deliveries(ghl_calls[i].lead) = 1

\* the fixed delay C16 names for the script
ClaimedDelay == IF send_script = "zoom_utils" THEN 1 ELSE 2

\* C16: after every attempted POST, accepted or not, send_to_ghl blocks for at
\* least the script's fixed delay (1 s in zoom_utils, 2 s in the WebinarJam
\* script), so any two consecutive POSTs are at least that far apart.
C16_PacedPosts ==
    /\ \A i \in 1..Len(ghl_calls) :
          Posted(ghl_calls[i]) => ghl_calls[i].slept >= ClaimedDelay
    /\ \A i \in 1..Len(ghl_calls) - 1 :
          Posted(ghl_calls[i]) /\ Posted(ghl_calls[i + 1])
              => ghl_calls[i + 1].at - ghl_calls[i].at >= ClaimedDelay
    /\ Len(ghl_calls) > 0 /\ Posted(ghl_calls[Len(ghl_calls)])
          => clock - ghl_calls[Len(ghl_calls)].at >= ClaimedDelay

C16_Witness ==
    /\ send_script = "webinarjam"
    /\ Len(ghl_calls) = 2
    /\ ghl_calls[1].answers = <<"timeout">>
    /\ ghl_calls[2].answers = <<"200">>
    /\ ghl_calls[2].at - ghl_calls[1].at = 2

-----------------------------------------------------------------------------
(* SpecZoomClient: ZoomAPIClient of main.py, driven by the pagination loop *)
(* of main()                                                               *)

\* lines 64-67
required_scopes ==
    {"webinar:read:webinar:admin", "webinar:read:list_past_participants:admin"}

\* the scope sets a token answer can grant (the words of its 'scope' string)
Grants ==
    {required_scopes,
     required_scopes \cup {"user:read:admin"},
     {"webinar:read:webinar:admin"}}

\* expires_in of a token answer, in seconds
ExpiresIn == {3600, 100}

\* answers of the token endpoint: a failed request, a body without 'scope',
\* a body without 'expires_in', a complete body
TokenAnswers ==
    {[kind |-> k, scope |-> {}, expires_in |-> 0] : k \in {"failed", "malformed"}}
        \cup {[kind |-> "no_expires_in", scope |-> g, expires_in |-> 0] : g \in Grants}
        \cup {[kind |-> "ok", scope |-> g, expires_in |-> e] : g \in Grants, e \in ExpiresIn}

\* lines 100-107: the exception _validate_token_scopes ends with
validate_token_scopes(granted) ==
    LET missing == required_scopes \ granted
    IN IF missing # {} THEN "PermissionError" ELSE "none"

\* the token an answer carries, obtained at time t
NewToken(answer, t) == [issued_at |-> t, scope |-> answer.scope]

Unchanged(token, expires_at, exc) ==
    [access_token |-> token, token_expires_at |-> expires_at, exc |-> exc]

\* _get_access_token storing the token before its scopes are validated
get_access_token_StoreFirst(token, expires_at, answer, t) ==
    IF answer.kind = "failed" THEN Unchanged(token, expires_at, "RequestException")
    ELSE IF answer.kind = "malformed" THEN Unchanged(token, expires_at, "KeyError")
    ELSE IF answer.kind = "no_expires_in"
    THEN Unchanged(NewToken(answer, t), expires_at, "KeyError")
    ELSE [access_token |-> NewToken(answer, t),
          token_expires_at |-> t + answer.expires_in - 60,
          exc |-> validate_token_scopes(answer.scope)]

\* lines 69-98: the client's two fields after _get_access_token, and the
\* exception it ends with
get_access_token(token, expires_at, answer, t) ==
    IF answer.kind = "failed" THEN Unchanged(token, expires_at, "RequestException")
    ELSE IF answer.kind = "malformed" THEN Unchanged(token, expires_at, "KeyError")
    ELSE IF validate_token_scopes(answer.scope) # "none"
    THEN Unchanged(token, expires_at, validate_token_scopes(answer.scope))
    ELSE IF answer.kind = "no_expires_in"
    THEN Unchanged(NewToken(answer, t), expires_at, "KeyError")
    ELSE [access_token |-> NewToken(answer, t),
          token_expires_at |-> t + answer.expires_in - 60,
          exc |-> "none"]

\* line 111
NeedsRefresh == access_token = NoToken \/ now >= token_expires_at

MaxRetries == 2
MaxRequests == 4

\* Retry-After headers of a 429 answer
RetryAfterHeaders == {Missing, PyStr(<<"1">>)}

\* answers to a participants request: a page with or without a
\* next_page_token, 429, another 4xx, 5xx, no answer in time
Responses ==
    {[status |-> "200", next_page_token |-> b, retry_after |-> Missing] : b \in BOOLEAN}
        \cup {[status |-> "429", next_page_token |-> FALSE, retry_after |-> h] :
                 h \in RetryAfterHeaders}
        \cup {[status |-> s, next_page_token |-> FALSE, retry_after |-> Missing] :
                 s \in {"404", "500", "timeout"}}

\* line 142
RetryAfter(response) ==
    LET header == Get(response.retry_after, PyNum(60))
    IN IF header.type = "int" THEN Return(header.val) ELSE PyInt(header.val)

ZoomInit ==
    /\ max_retries \in 0..MaxRetries
    /\ now = 0
    /\ access_token = NoToken
    /\ token_expires_at = -1
    /\ retries = 0
    /\ requests = <<>>
    /\ total_requests = 0
    /\ get_result = NotRun
    /\ zpc = "call"
    /\ EarlierIdle
    /\ LastIdle
    /\ NameIdle
    /\ SendIdle
    /\ LowIdle

\* main.py line 210 and get_participants lines 117-118: the call refreshes
\* the token when needed and enters the loop, or ends with the exception of
\* _get_access_token
GetParticipantsCall ==
    /\ zpc = "call"
    /\ total_requests < MaxRequests
    /\ IF NeedsRefresh
       THEN \E answer \in TokenAnswers :
               LET r == get_access_token(access_token, token_expires_at, answer, now)
               IN /\ access_token' = r.access_token
                  /\ token_expires_at' = r.token_expires_at
                  /\ get_result' = IF r.exc = "none" THEN NotRun ELSE Raise(r.exc)
                  /\ zpc' = IF r.exc = "none" THEN "loop" ELSE "raised"
       ELSE /\ UNCHANGED <<access_token, token_expires_at>>
            /\ get_result' = NotRun
            /\ zpc' = "loop"
    /\ retries' = 0
    /\ requests' = <<>>
    /\ UNCHANGED <<max_retries, now, total_requests>>
    /\ UNCHANGED ZoomOthers

\* lines 120-156: one pass of the while loop; a returned page with a
\* next_page_token makes main() sleep rate_limit_delay (1.2 s, here 1) and
\* call again (lines 214-218)
GetParticipantsRequest ==
    /\ zpc = "loop"
    /\ retries <= max_retries
    /\ total_requests < MaxRequests
    /\ \E response \in Responses :
        /\ requests' =
               Append(requests,
                      [status |-> response.status, at |-> now, token |-> access_token,
                       token_expires_at |-> token_expires_at])
        /\ total_requests' = total_requests + 1
        /\ IF response.status = "429"
           THEN LET retry_after == RetryAfter(response)
                IN IF retry_after.kind = "raise"
                   THEN /\ get_result' = Raise(retry_after.exc)
                        /\ zpc' = "raised"
                        /\ UNCHANGED <<now, retries>>
                   ELSE /\ now' = now + retry_after.value
                        /\ UNCHANGED <<retries, get_result, zpc>>
           ELSE IF response.status = "200"
           THEN /\ get_result' = Return("page")
                /\ zpc' = IF response.next_page_token THEN "call" ELSE "done"
                /\ now' = IF response.next_page_token THEN now + 1 ELSE now
                /\ UNCHANGED retries
           ELSE /\ retries' = retries + 1
                /\ IF retries + 1 <= max_retries
                   THEN /\ now' = now + 2 ^ (retries + 1)
                        /\ UNCHANGED <<get_result, zpc>>
                   ELSE /\ get_result' = Raise("RequestException")
                        /\ zpc' = "raised"
                        /\ UNCHANGED now
    /\ UNCHANGED <<max_retries, access_token, token_expires_at>>
    /\ UNCHANGED ZoomOthers

ZoomNext == GetParticipantsCall \/ GetParticipantsRequest

SpecZoomClient == ZoomInit /\ [][ZoomNext]_vars

-----------------------------------------------------------------------------
(* SpecZoomClient: properties *)

\* C14 as claimed: get_participants issues at most max_retries + 1 requests
\* in one call, whatever the answers are (persistent 429, persistent 5xx),
\* before it returns a page or raises.
C14_BoundedRequests == Len(requests) <= max_retries + 1

\* C15 as claimed: a 4xx answer other than 429 is permanent: the request that
\* got it is the last one of the call (exactly one request when it is the
\* first answer), and the call has ended by raising.
C15_ClientErrorNotRetried ==
    \A i \in 1..Len(requests) :
        requests[i].status = "404" => (i = Len(requests) /\ zpc = "raised")

\* the token carries every required scope
FullyScoped(token) == required_scopes \subseteq token.scope

C17_OnlyScopedTokens ==
    /\ access_token # NoToken => FullyScoped(access_token)
    /\ \A i \in 1..Len(requests) :
          requests[i].token # NoToken /\ FullyScoped(requests[i].token)

C17_RejectionKeepsState ==
    (zpc = "call" /\ get_result'.kind = "raise" /\ get_result'.exc = "PermissionError")
        => /\ access_token' = access_token
           /\ token_expires_at' = token_expires_at
           /\ requests' = <<>>
           /\ total_requests' = total_requests

\* C17: ZoomAPIClient never stores or uses an access token whose granted
\* scopes miss a required scope: the stored token and the token of every
\* participants request carry all required scopes, and a get_participants
\* call that ends with PermissionError leaves access_token and
\* token_expires_at as they were and issues no participants request.
C17_NoUnderScopedToken == [](C17_OnlyScopedTokens) /\ [][C17_RejectionKeepsState]_vars

C17_Witness ==
    /\ zpc = "raised"
    /\ get_result = Raise("PermissionError")
    /\ access_token # NoToken
    /\ FullyScoped(access_token)
    /\ token_expires_at <= now
    /\ requests = <<>>
    /\ total_requests > 0

\* C18 as claimed: every participants request, those sent again after a
\* Retry-After wait or a backoff sleep included, is sent before the
\* token_expires_at of the token it carries.
C18_TokenFreshAtSend ==
    \A i \in 1..Len(requests) : requests[i].at < requests[i].token_expires_at

-----------------------------------------------------------------------------
(* SpecAggregate: a failing page *)

\* s is an initial part of t
IsPrefix(s, t) == Len(s) <= Len(t) /\ SubSeq(t, 1, Len(s)) = s

\* C19 as claimed: when the fetch of page k > 1 fails after pages 1..k-1 were
\* received, only the remaining pagination is given up: whenever the fetch
\* ends after at least one received page, the sessions of the pages received
\* so far are in the list that process_high_engagement_attendees goes on to
\* aggregate, classify and deliver.
C19_EarlierPagesKept ==
    [][(apc = "fetch" /\ page_count >= 1 /\ apc' # "fetch")
          => IsPrefix(all_items, all_participant_sessions')]_vars

-----------------------------------------------------------------------------
(* SpecLowEngagement: process_low_engagement_no_shows of                   *)
(* post-webby-script-2.py                                                  *)

\* an entry of a page's data array: a JSON object with the fields the loop
\* reads, or another JSON value
Entry(kind, email, attended_live, time_live) ==
    [kind |-> kind, email |-> email, attended_live |-> attended_live,
     time_live |-> time_live]

TenMinutes == PyStr(<<"0", "0", ":", "1", "0", ":", "0", "0">>)
TwoHours == PyStr(<<"0", "2", ":", "0", "0", ":", "0", "0">>)

Entries ==
    { Entry("dict", EmailA, PyStr(<<"N", "o">>), DefaultTimeLive),
      Entry("dict", EmailB, PyStr(<<"Y", "e", "s">>), TenMinutes),
      Entry("dict", EmailC, PyStr(<<"Y", "e", "s">>), TwoHours),
      Entry("dict", EmailB, PyStr(<<"n", "o">>), TwoHours),
      Entry("dict", Missing, PyStr(<<"N", "o">>), Missing),
      Entry("dict", PyStr(<<>>), PyStr(<<"Y", "e", "s">>), TenMinutes),
      Entry("str", Missing, Missing, Missing) }

MaxLowEntries == 3

\* the data array of one answer
PageData == UNION {[1..n -> Entries] : n \in 0..2}

LowInit ==
    /\ page = 1
    /\ total_pages_api = 0
    /\ data = <<>>
    /\ ei = 0
    /\ fetched = <<>>
    /\ low_posts = <<>>
    /\ api_fetched_count = 0
    /\ processed_count = 0
    /\ lpc = "fetch"
    /\ EarlierIdle
    /\ LastIdle
    /\ NameIdle
    /\ SendIdle
    /\ ZoomIdle

\* lines 121-146: the page is requested; a "success" answer with a non-empty
\* data array starts the loop over its entries, total_pages being 0 (absent),
\* this page or a later one
LowFetchPage ==
    /\ lpc = "fetch"
    /\ \E d \in PageData, total \in {0, page, page + 1} :
        /\ Len(fetched) + Len(d) <= MaxLowEntries
        /\ data' = d
        /\ total_pages_api' = total
        /\ fetched' = fetched \o d
        /\ lpc' = IF Len(d) = 0 THEN "done" ELSE "entries"
    /\ ei' = 0
    /\ UNCHANGED <<page, low_posts, api_fetched_count, processed_count>>
    /\ UNCHANGED LowOthers

\* lines 136-139 and 168-179: an HTTP error, a transport failure, an
\* undecodable body, a status other than "success" or a 'registrants' field
\* that is no object ends the while loop
LowFetchFail ==
    /\ lpc = "fetch"
    /\ lpc' = "done"
    /\ UNCHANGED <<page, total_pages_api, data, ei, fetched, low_posts,
                   api_fetched_count, processed_count>>
    /\ UNCHANGED LowOthers

\* LowTags with the third tag added
LowTags_EveryTag ==
    {Return("low engagement"), Return("no-show"), Return("high engagement")}

\* the tags this script sends (line 156)
LowTags == {Return("low engagement"), Return("no-show")}

\* lines 148-167: the loop body for the next entry of the page and, after the
\* last entry, the decision on the next page. registrant.get (line 150) on an
\* entry that is no dict raises AttributeError, which the except clause of
\* line 178 answers with break. send_to_ghl (lines 89-112) makes the POST and
\* only logs what the webhook answers.
LowEntry ==
    /\ lpc = "entries"
    /\ ei < Len(data)
    /\ api_fetched_count' = api_fetched_count + 1
    /\ ei' = ei + 1
    /\ LET entry == data[ei + 1]
           next_page == ei + 1 = Len(data) /\ page < total_pages_api
       IN IF entry.kind # "dict"
          THEN /\ lpc' = "done"
               /\ UNCHANGED <<page, low_posts, processed_count>>
          ELSE /\ lpc' = IF ei + 1 < Len(data) THEN "entries"
                         ELSE IF next_page THEN "fetch"
                         ELSE "done"
               /\ page' = IF next_page THEN page + 1 ELSE page
               /\ IF ~Falsy(Get(entry.email, PyNone))
                     /\ determine_tag(entry) \in LowTags
                  THEN /\ low_posts' =
                              Append(low_posts,
                                     [email |-> entry.email,
                                      tag |-> determine_tag(entry).value,
                                      hot_lead |-> determine_hot_lead(entry).value])
                       /\ processed_count' = processed_count + 1
                  ELSE UNCHANGED <<low_posts, processed_count>>
    /\ UNCHANGED <<total_pages_api, data, fetched>>
    /\ UNCHANGED LowOthers

LowNext == LowFetchPage \/ LowFetchFail \/ LowEntry

SpecLowEngagement == LowInit /\ [][LowNext]_vars

-----------------------------------------------------------------------------
(* SpecLowEngagement: properties *)

\* a well-formed entry tagged 'low engagement' or 'no-show'
Qualifying(e) ==
    /\ e.kind = "dict"
    /\ e.email.type = "str" /\ e.email.val # <<>>
    /\ \/ Lower(PyStrOf(Get(e.attended_live, PyStr(<<>>)))) # Yes
       \/ e.time_live = TenMinutes

\* the qualifying entries of all pages received
QualifyingFetched == SelectSeq(fetched, Qualifying)

\* C20 as claimed: an entry of a page's data array that is no dict, or has no
\* email, is skipped, and every later entry of that page and of the following
\* pages is still classified and, when it qualifies, sent: once the run is
\* over, the POSTs made are the qualifying entries of the pages received.
C20_MalformedEntrySkipped ==
    lpc = "done" =>
        /\ Len(low_posts) = Len(QualifyingFetched)
        /\ \A i \in 1..Len(low_posts) : low_posts[i].email = QualifyingFetched[i].email

-----------------------------------------------------------------------------
(* SpecRegistrants: the pagination loop of process_registrants             *)
(* (webinarjam_retrieve_attendees.py)                                      *)

MaxWjPages == 3

\* data arrays of an answer; an entry is a dict with an email ("lead"), a
\* dict without one, or no dict at all
WjData ==
    {<<>>, <<"lead">>, <<"lead", "lead">>, <<"no_email", "lead">>, <<"not_dict">>}

\* answers that are no "success" body: status "error", another status, a
\* 'registrants' field that is no dict, and the exceptions of lines 253-268
WjFailures ==
    {"error", "unexpected", "registrants_not_dict", "http_error", "timeout",
     "transport", "bad_json"}

\* what the request for page p can be answered; current_page and total_pages
\* are the integers of lines 197-203 (after their fallbacks)
WjAnswers(p) ==
    {[kind |-> k, data |-> <<>>, current_page |-> p, total_pages |-> 0] :
        k \in WjFailures}
        \cup {[kind |-> "success", data |-> d, current_page |-> c, total_pages |-> t] :
                 d \in WjData, c \in {1, p}, t \in {0, p, p + 1}}

\* line 234
ReachedEnd(answer) ==
    answer.total_pages > 0 /\ answer.current_page >= answer.total_pages

\* the next page computed from the answer's current_page
NextPage_FromApi(page_, answer) == answer.current_page + 1

\* line 243
NextPage(page_, answer) == page_ + 1

\* lines 215-230: the pages of the leads sent from the data of page page_
SentFrom(page_, d) ==
    LET leads == SelectSeq(d, LAMBDA e : e = "lead")
    IN [i \in 1..Len(leads) |-> page_]

RegInit ==
    /\ wj_page = 1
    /\ wj_requests = <<>>
    /\ wj_sent = <<>>
    /\ total_api_registrants_fetched = 0
    /\ wpc = "fetch"
    /\ EarlierIdle
    /\ LaterIdle
    /\ PayIdle
    /\ CsvIdle
    /\ TagIdle
    /\ RegisterIdle

\* lines 170-268: one pass of the while loop: the page is requested; a
\* "success" answer with data has each of its leads sent (send_to_ghl never
\* raises) and then either ends the loop (line 234) or moves to the next page;
\* every other answer ends the loop
RegFetchPage ==
    /\ wpc = "fetch"
    /\ wj_page <= MaxWjPages
    /\ \E answer \in WjAnswers(wj_page) :
        /\ wj_requests' = Append(wj_requests, [page |-> wj_page, answer |-> answer])
        /\ IF answer.kind = "success" /\ answer.data # <<>>
           THEN /\ wj_sent' = wj_sent \o SentFrom(wj_page, answer.data)
                /\ total_api_registrants_fetched' =
                       total_api_registrants_fetched + Len(answer.data)
                /\ IF ReachedEnd(answer)
                   THEN wpc' = "done" /\ UNCHANGED wj_page
                   ELSE wj_page' = NextPage(wj_page, answer) /\ UNCHANGED wpc
           ELSE /\ wpc' = "done"
                /\ UNCHANGED <<wj_page, wj_sent, total_api_registrants_fetched>>
    /\ UNCHANGED RegOthers

RegNext == RegFetchPage

SpecRegistrants == RegInit /\ [][RegNext]_vars

-----------------------------------------------------------------------------
(* SpecRegistrants: properties *)

\* the answers C21 names as ending the pagination
EndsPagination(answer) ==
    \/ answer.kind \in {"error", "http_error", "timeout", "transport"}
    \/ answer.kind = "success" /\ answer.data = <<>>
    \/ answer.kind = "success" /\ answer.current_page >= answer.total_pages
          /\ answer.total_pages > 0

C21_PagesInOrder ==
    /\ \A i \in 1..Len(wj_requests) : wj_requests[i].page = i
    /\ \A i \in 1..Len(wj_requests) :
          EndsPagination(wj_requests[i].answer)
              => (i = Len(wj_requests) /\ wpc = "done")
    /\ \A k \in 1..Len(wj_sent) : wj_sent[k] \in 1..Len(wj_requests)
    /\ \A k \in 1..Len(wj_sent) - 1 : wj_sent[k] <= wj_sent[k + 1]

C21_NothingAfterStop ==
    wpc = "done" => (wj_requests' = wj_requests /\ wj_sent' = wj_sent)

\* C21: process_registrants requests the pages one at a time in the order
\* 1, 2, 3, ..., none twice and none skipped; the request answered with an
\* empty data array, an error status, a transport failure or
\* current_page >= total_pages > 0 is the last one; leads are sent page by
\* page; and once the loop has stopped no page is requested and no lead sent.
C21_OrderedPagination == [](C21_PagesInOrder) /\ [][C21_NothingAfterStop]_vars

C21_Witness ==
    /\ wpc = "done"
    /\ Len(wj_requests) = 3
    /\ wj_requests[2].answer.current_page = 1
    /\ wj_requests[3].answer.kind = "success"
    /\ wj_requests[3].answer.data = <<>>
    /\ wj_sent = <<1, 2, 2>>

-----------------------------------------------------------------------------
(* SpecPayload: the JSON body built by zoom_utils.send_to_ghl              *)

\* the values registrant_data.get(...) can give: None (also for an absent
\* key), an empty string, a value
PayRegistrants ==
    [first_name : {PyNone, PyStr(<<"A">>)},
     last_name : {PyNone, PyStr(<<>>)},
     email : {PyNone, EmailA},
     phone_number : {PyNone, PyStr(<<>>), PyStr(<<"4", "6">>)},
     time_live : {PyNone, TwoHours},
     attended_live : {PyNone, PyStr(Yes)},
     zoom_id : {PyNone, R1}]

\* what the callers pass (zoom_process_high_engagement_leads.py lines 94-101,
\* zoom_process_no_shows.py line 55)
PayArgs ==
    [tag : {"high engagement", "low engagement", "no-show"},
     purchased_status : {0, 1},
     hot_lead_status : {0, 1},
     occurrence_id : {PyNone, PyStr(<<"O", "1">>)}]

PayInit ==
    /\ registrant_data \in PayRegistrants
    /\ send_args \in PayArgs
    /\ payload_cleaned = <<>>
    /\ ypc = "send"
    /\ EarlierIdle
    /\ LaterIdle
    /\ RegIdle
    /\ CsvIdle
    /\ TagIdle
    /\ RegisterIdle

\* lines 164-181: the payload is built, cleaned and posted
PaySend ==
    /\ ypc = "send"
    /\ payload_cleaned' =
           GhlPayload(registrant_data, send_args.tag, send_args.purchased_status,
                      send_args.hot_lead_status, WebinarId, send_args.occurrence_id)
    /\ ypc' = "done"
    /\ UNCHANGED <<registrant_data, send_args>>
    /\ UNCHANGED PayOthers

PayNext == PaySend

SpecPayload == PayInit /\ [][PayNext]_vars

\* the value each key of the payload is given before the cleaning
RawValue ==
    [webinar_id |-> WebinarId,
     schedule_id |-> send_args.occurrence_id,
     first_name |-> registrant_data.first_name,
     last_name |-> registrant_data.last_name,
     email |-> registrant_data.email,
     phone |-> registrant_data.phone_number,
     tag |-> PyStr(send_args.tag),
     purchased |-> PyNum(send_args.purchased_status),
     hot_lead |-> PyNum(send_args.hot_lead_status),
     time_live |-> registrant_data.time_live,
     attended_live_api_value |-> registrant_data.attended_live,
     zoom_registrant_id |-> registrant_data.zoom_id]

\* C22: the JSON payload posted by zoom_utils.send_to_ghl has no key with a
\* null value: a key whose value is None (phone, schedule_id, any other) is
\* omitted, every key whose value is not None is present with that value
\* unchanged (an empty string and 0 included), and tag, purchased and hot_lead
\* are always present.
C22_NoNullInPayload ==
    ypc = "done" =>
        /\ DOMAIN payload_cleaned \subseteq DOMAIN RawValue
        /\ \A k \in DOMAIN payload_cleaned : payload_cleaned[k].type # "NoneType"
        /\ \A k \in DOMAIN RawValue :
              IF RawValue[k].type = "NoneType"
              THEN k \notin DOMAIN payload_cleaned
              ELSE k \in DOMAIN payload_cleaned /\ payload_cleaned[k] = RawValue[k]
        /\ {"tag", "purchased", "hot_lead"} \subseteq DOMAIN payload_cleaned

C22_Witness ==
    /\ ypc = "done"
    /\ registrant_data.phone_number = PyNone
    /\ registrant_data.last_name = PyStr(<<>>)
    /\ send_args.occurrence_id = PyNone
    /\ send_args.purchased_status = 0
    /\ "phone" \notin DOMAIN payload_cleaned
    /\ "schedule_id" \notin DOMAIN payload_cleaned
    /\ payload_cleaned["last_name"] = PyStr(<<>>)
    /\ payload_cleaned["purchased"] = PyNum(0)

-----------------------------------------------------------------------------
(* SpecCsv: preprocess_csv of amazon_gung.py, one row at a time            *)

No == <<"n", "o">>

\* lines 30-33 and 36-39: what the row holds under a yes/no column afterwards
NormalizeYesNo(v) ==
    IF Falsy(v) \/ Lower(Strip(v.val)) = No THEN PyNum(0)
    ELSE IF Lower(Strip(v.val)) = Yes THEN PyNum(1)
    ELSE v

\* lines 42-43
NormalizePhone(v) == IF Falsy(v) THEN PyStr(<<>>) ELSE v

\* cells of a yes/no column: None for a short row, else the text of the cell
YesNoCells ==
    {PyNone, PyStr(<<>>), PyStr(<<" ">>), PyStr(<<"y", "e", "s">>),
     PyStr(<<"Y", "e", "s">>), PyStr(<<" ", "Y", "E", "S", " ">>),
     PyStr(<<"n", "o">>), PyStr(<<"N", "o", " ">>), PyStr(<<"y">>),
     PyStr(<<"m", "a", "y", "b", "e">>), PyStr(<<"1">>)}

PhoneCells == {PyNone, PyStr(<<>>), PyStr(<<"4", "6">>)}

CsvInit ==
    /\ row \in [Email : {EmailA}, Attended : YesNoCells, OnAmazon : YesNoCells,
                Phone : PhoneCells]
    /\ written_row = <<>>
    /\ kpc = "row"
    /\ EarlierIdle
    /\ LaterIdle
    /\ RegIdle
    /\ PayIdle
    /\ TagIdle
    /\ RegisterIdle

\* lines 24-50: the loop body for one row (the title-cased Name and the
\* dropped "Registered At" column touch no other column)
PreprocessRow ==
    /\ kpc = "row"
    /\ written_row' =
           [Email |-> row.Email,
            Attended |-> NormalizeYesNo(row.Attended),
            OnAmazon |-> NormalizeYesNo(row.OnAmazon),
            Phone |-> NormalizePhone(row.Phone)]
    /\ kpc' = "done"
    /\ UNCHANGED row
    /\ UNCHANGED CsvOthers

CsvNext == PreprocessRow

SpecCsv == CsvInit /\ [][CsvNext]_vars

\* the cell reads 'yes' once trimmed and lower-cased
SaysYes(cell) == cell.type = "str" /\ Lower(Strip(cell.val)) = <<"y", "e", "s">>

\* C23 as claimed: for every input row the 'Attended' and 'On Amazon' values
\* written to the output CSV are each 1 or 0, and 1 exactly when the trimmed,
\* case-insensitive input is 'yes'.
C23_YesNoNormalized ==
    kpc = "done" =>
        /\ written_row.Attended = (IF SaysYes(row.Attended) THEN PyNum(1) ELSE PyNum(0))
        /\ written_row.OnAmazon = (IF SaysYes(row.OnAmazon) THEN PyNum(1) ELSE PyNum(0))

-----------------------------------------------------------------------------
(* SpecAggregate: who is delivered *)

\* the attendees the delivery loop has gone through
Delivered == SubSeq(aggregated_attendees, 1, di)

\* the POSTs of this run that carry key k
PostsOf(k) == {m \in 1..Len(ghl_posts) : PostKey(ghl_posts[m]) = k}

\* C24 as claimed: process_high_engagement_attendees sends only
\* high-engagement attendees and sends all of them: an aggregated attendee is
\* posted to the webhook exactly once if and only if its summed
\* total_duration_seconds is >= 5400, and the posted hot_lead is 1 if and
\* only if that sum is >= 7200.
C24_HighEngagementSent ==
    \A n \in 1..Len(Delivered) :
        LET attendee_data == Delivered[n]
        IN /\ Cardinality(PostsOf(attendee_data.key))
                  = (IF attendee_data.total_duration_seconds >= 5400 THEN 1 ELSE 0)
           /\ \A m \in PostsOf(attendee_data.key) :
                  (ghl_posts[m].hot_lead = PyNum(1))
                      <=> attendee_data.total_duration_seconds >= 7200

-----------------------------------------------------------------------------
(* SpecPreprocess: duplicates *)

\* position in the retained list of the first participant with registrant_id rid
FirstRetained(rid) ==
    CHOOSE n \in 1..Len(filtered_participants) :
        /\ filtered_participants[n].registrant_id = rid
        /\ \A m \in 1..(n - 1) : filtered_participants[m].registrant_id # rid

\* C25: process_zoom_participants removes duplicates by registrant_id keeping
\* the first occurrence: the output has at most one record per registrant_id
\* among the retained participants, that record carries the name, email and
\* duration of the first retained participant with that id (durations of
\* later duplicates are not added), and output order follows first occurrence.
C25_FirstOccurrenceKept ==
    ppc \in {"simplify", "done"} =>
        /\ UniqueIds(unique_participants)
               = {filtered_participants[n].registrant_id :
                      n \in 1..Len(filtered_participants)}
        /\ \A j, k \in 1..Len(unique_participants) :
               /\ unique_participants[j].registrant_id
                      = unique_participants[k].registrant_id => j = k
               /\ j < k => FirstRetained(unique_participants[j].registrant_id)
                               < FirstRetained(unique_participants[k].registrant_id)
        /\ \A k \in 1..Len(processed_participants) :
               From(processed_participants[k],
                    filtered_participants[FirstRetained(unique_participants[k].registrant_id)])
        /\ ppc = "done" => Len(processed_participants) = Len(unique_participants)

C25_Witness ==
    /\ ppc = "done"
    /\ Len(filtered_participants) = 3
    /\ filtered_participants[1].registrant_id = R1
    /\ filtered_participants[1].duration = PyNum(4340)
    /\ filtered_participants[2].registrant_id = R2
    /\ filtered_participants[3].registrant_id = R1
    /\ filtered_participants[3].duration = PyNum(200)
    /\ Len(processed_participants) = 2
    /\ processed_participants[1].duration = PyNum(4340)
    /\ processed_participants[2].name = Bob

-----------------------------------------------------------------------------
(* SpecTagging: tag_low_engagement_contacts of                             *)
(* zoom_process_low_engagement_leads.py                                    *)

PyList(items) == [type |-> "list", val |-> items]

HighEngagementTag ==
    <<"h", "i", "g", "h", " ", "e", "n", "g", "a", "g", "e", "m", "e", "n", "t">>
HotLeadTag == <<"h", "o", "t", " ", "l", "e", "a", "d">>
NoShowTag == <<"n", "o", "-", "s", "h", "o", "w">>

EXCLUSION_TAGS == <<HighEngagementTag, HotLeadTag, NoShowTag>>
LOW_ENGAGEMENT_TAG ==
    <<"l", "o", "w", " ", "e", "n", "g", "a", "g", "e", "m", "e", "n", "t">>

\* line 151 without the lower-casing: the tags as the search gave them
ExistingTags_AsWritten(contact) ==
    LET tags == Get(contact.tags, PyList(<<>>)).val
    IN {tags[i] : i \in 1..Len(tags)}

\* line 151
ExistingTags(contact) ==
    LET tags == Get(contact.tags, PyList(<<>>)).val
    IN {Lower(tags[i]) : i \in 1..Len(tags)}

\* lines 154-159
ToBeTagged(contact) ==
    LET existing_tags == ExistingTags(contact)
        has_exclusion_tag ==
            \E i \in 1..Len(EXCLUSION_TAGS) : Lower(EXCLUSION_TAGS[i]) \in existing_tags
        has_low_engagement_tag == Lower(LOW_ENGAGEMENT_TAG) \in existing_tags
    IN ~has_exclusion_tag /\ ~has_low_engagement_tag

RECURSIVE CollectIds(_, _)
\* lines 148-160: the ids of the contacts of one page that are to be tagged
CollectIds(contacts, n) ==
    IF n > Len(contacts) THEN <<>>
    ELSE (IF ToBeTagged(contacts[n]) THEN <<contacts[n].id>> ELSE <<>>)
             \o CollectIds(contacts, n + 1)

MaxSearchPages == 2
MaxContacts == 3

WeekTag == <<"w", "e", "e", "k">>

\* the tags of a contact as the search returns them: the key may be absent
TagLists ==
    {Missing, PyList(<<WeekTag>>),
     PyList(<<WeekTag, <<"N", "o", "-", "S", "h", "o", "w">>>>),
     PyList(<<<<"H", "O", "T", " ", "L", "E", "A", "D">>, WeekTag>>),
     PyList(<<WeekTag, HighEngagementTag>>),
     PyList(<<WeekTag, <<"L", "o", "w", " ", "e", "n", "g", "a", "g", "e", "m", "e", "n", "t">>>>),
     PyList(<<WeekTag, <<"l", "o", "w">>>>)}

\* a page of the search: each contact of the location is listed once, so the
\* ids continue where the pages before stopped
ContactPages(first_id) ==
    UNION {{[i \in 1..n |-> [id |-> first_id + i, tags |-> t[i]]] : t \in [1..n -> TagLists]} :
               n \in 0..(MaxContacts - first_id)}

TagInit ==
    /\ current_page = 1
    /\ total_fetched = 0
    /\ contacts_seen = <<>>
    /\ contacts_to_tag_low_engagement = <<>>
    /\ tag_requests = <<>>
    /\ gi = 0
    /\ gpc = "search"
    /\ EarlierIdle
    /\ LaterIdle
    /\ RegIdle
    /\ PayIdle
    /\ CsvIdle
    /\ RegisterIdle

\* where the script goes once the pagination loop is left (line 173)
AfterSearch(ids) == IF Len(ids) = 0 THEN "done" ELSE "tag"

\* lines 133-137: the search fails or answers without "contacts"
SearchFails ==
    /\ gpc = "search"
    /\ gpc' = AfterSearch(contacts_to_tag_low_engagement)
    /\ UNCHANGED <<current_page, total_fetched, contacts_seen,
                   contacts_to_tag_low_engagement, tag_requests, gi>>
    /\ UNCHANGED TagOthers

\* lines 133-170: one page of the search is answered and gone through
SearchPage ==
    /\ gpc = "search"
    /\ \E contacts_on_page \in ContactPages(total_fetched),
          more \in BOOLEAN :
        LET fetched_ == total_fetched + Len(contacts_on_page)
            total_contacts_in_search == IF more THEN fetched_ + 1 ELSE fetched_
        IN /\ more => current_page < MaxSearchPages
           /\ IF Len(contacts_on_page) = 0 /\ total_fetched = 0 /\ current_page = 1
              THEN /\ gpc' = AfterSearch(contacts_to_tag_low_engagement)
                   /\ UNCHANGED <<current_page, total_fetched, contacts_seen,
                                  contacts_to_tag_low_engagement>>
              ELSE /\ total_fetched' = fetched_
                   /\ contacts_seen' = contacts_seen \o contacts_on_page
                   /\ contacts_to_tag_low_engagement' =
                          contacts_to_tag_low_engagement \o CollectIds(contacts_on_page, 1)
                   /\ IF fetched_ >= total_contacts_in_search \/ Len(contacts_on_page) = 0
                      THEN /\ gpc' = AfterSearch(contacts_to_tag_low_engagement')
                           /\ UNCHANGED current_page
                      ELSE /\ current_page' = current_page + 1
                           /\ UNCHANGED gpc
    /\ UNCHANGED <<tag_requests, gi>>
    /\ UNCHANGED TagOthers

\* lines 175-184: the add-tag request for the next collected id; its answer
\* is only logged
TagContact ==
    /\ gpc = "tag"
    /\ gi < Len(contacts_to_tag_low_engagement)
    /\ tag_requests' =
           Append(tag_requests,
                  [contact_id |-> contacts_to_tag_low_engagement[gi + 1],
                   tags |-> <<LOW_ENGAGEMENT_TAG>>])
    /\ gi' = gi + 1
    /\ gpc' = IF gi + 1 < Len(contacts_to_tag_low_engagement) THEN "tag" ELSE "done"
    /\ UNCHANGED <<current_page, total_fetched, contacts_seen,
                   contacts_to_tag_low_engagement>>
    /\ UNCHANGED TagOthers

TagNext == SearchFails \/ SearchPage \/ TagContact

SpecTagging == TagInit /\ [][TagNext]_vars

\* contact carries tag t, whatever the case it is written in
Carries(contact, t) ==
    /\ contact.tags.type = "list"
    /\ \E i \in 1..Len(contact.tags.val) : Lower(contact.tags.val[i]) = t

\* C26: tag_low_engagement_contacts never issues an add-tag request for a
\* contact that, in the search results, already carries any exclusion tag
\* ('high engagement', 'hot lead', 'no-show', compared case-insensitively) or
\* already carries 'low engagement'; every add-tag request adds exactly the
\* tag 'low engagement'.
C26_ExcludedNeverTagged ==
    \A r \in 1..Len(tag_requests) :
        /\ tag_requests[r].tags = <<LOW_ENGAGEMENT_TAG>>
        /\ \A n \in 1..Len(contacts_seen) :
               contacts_seen[n].id = tag_requests[r].contact_id =>
                   /\ ~Carries(contacts_seen[n], HighEngagementTag)
                   /\ ~Carries(contacts_seen[n], HotLeadTag)
                   /\ ~Carries(contacts_seen[n], NoShowTag)
                   /\ ~Carries(contacts_seen[n], LOW_ENGAGEMENT_TAG)

C26_Witness ==
    /\ gpc = "done"
    /\ Len(contacts_seen) = 3
    /\ Carries(contacts_seen[1], HotLeadTag)
    /\ contacts_seen[2].tags = PyList(<<WeekTag, <<"l", "o", "w">>>>)
    /\ Carries(contacts_seen[3], LOW_ENGAGEMENT_TAG)
    /\ Len(tag_requests) = 1
    /\ tag_requests[1].contact_id = 2

-----------------------------------------------------------------------------
(* SpecRegister: register_contact of webinarjam_auto_register.py           *)

RegisterMaxRetries == 3

HttpException(status_code) == [kind |-> "raise", value |-> status_code, exc |-> "HTTPException"]

\* ShouldRetry for every 5xx answer
ShouldRetry_AnyServerError(status_code) == status_code >= 500

\* line 91
ShouldRetry(status_code) == status_code = 502

\* 2 ** attempt
Pow2(n) == IF n = 0 THEN 1 ELSE IF n = 1 THEN 2 ELSE 4

\* what WebinarJam answers to a registration request: a status code with a
\* body that is no JSON, JSON that is no object, or an object with a status
\* and perhaps a user; "exception" stands for a requests.RequestException
RegisterAnswers ==
    [kind : {"response"}, status_code : {200, 400, 502, 503},
     body : {"not json", "not an object", "success", "success, user null",
             "success, no user", "error"}]
        \cup {[kind |-> "exception", status_code |-> 0, body |-> "not json"]}

\* what the GHL webhook answers: a status code, or 0 for a RequestException
GhlAnswers == {200, 500, 0}

ContactNames == {<<>>, <<" ">>, <<"A", "n", "n">>, AnnLee.val}

RegisterInit ==
    /\ contact_name \in ContactNames
    /\ attempt = 0
    /\ reg_responses = <<>>
    /\ ghl_webhook_posts = <<>>
    /\ backoff = 0
    /\ register_result = NotRun
    /\ rpc = "start"
    /\ EarlierIdle
    /\ LaterIdle
    /\ RegIdle
    /\ PayIdle
    /\ CsvIdle
    /\ TagIdle

\* lines 52-75: name_parts[0] raises IndexError for a name without a word
RegisterPrepare ==
    /\ rpc = "start"
    /\ IF Len(SplitWhitespace(contact_name)) = 0
       THEN /\ register_result' = Raise("IndexError")
            /\ rpc' = "done"
       ELSE /\ rpc' = "attempt"
            /\ UNCHANGED register_result
    /\ UNCHANGED <<contact_name, attempt, reg_responses, ghl_webhook_posts, backoff>>
    /\ UNCHANGED RegisterOthers

\* lines 97-146: the answer is no 502
HandleAnswer(answer, ghl_answer) ==
    IF answer.status_code # 200 THEN [post |-> FALSE, result |-> HttpException(answer.status_code)]
    ELSE IF answer.body = "not json" THEN [post |-> FALSE, result |-> HttpException(500)]
    ELSE IF answer.body = "not an object"
    THEN [post |-> FALSE, result |-> Raise("AttributeError")]
    ELSE IF answer.body = "error" THEN [post |-> FALSE, result |-> HttpException(400)]
    ELSE IF answer.body = "success, user null"
    THEN [post |-> FALSE, result |-> Raise("AttributeError")]
    ELSE [post |-> TRUE,
          result |-> IF ghl_answer = 0 THEN HttpException(500) ELSE Return("registered")]

\* lines 76-159: one pass of the attempt loop, and the loop's else clause
\* after the last pass
RegisterAttempt ==
    /\ rpc = "attempt"
    /\ attempt < RegisterMaxRetries
    /\ \E answer \in RegisterAnswers, ghl_answer \in GhlAnswers :
        /\ reg_responses' = Append(reg_responses, answer)
        /\ IF answer.kind = "exception"
           THEN /\ register_result' = HttpException(500)
                /\ rpc' = "done"
                /\ UNCHANGED <<attempt, ghl_webhook_posts, backoff>>
           ELSE IF ShouldRetry(answer.status_code)
           THEN /\ backoff' = backoff + Pow2(attempt)
                /\ attempt' = attempt + 1
                /\ IF attempt + 1 < RegisterMaxRetries
                   THEN UNCHANGED <<register_result, rpc>>
                   ELSE /\ register_result' = HttpException(502)
                        /\ rpc' = "done"
                /\ UNCHANGED ghl_webhook_posts
           ELSE LET handled == HandleAnswer(answer, ghl_answer)
                IN /\ ghl_webhook_posts' =
                          IF handled.post
                          THEN Append(ghl_webhook_posts,
                                      [after |-> Len(reg_responses'), answer |-> ghl_answer])
                          ELSE ghl_webhook_posts
                   /\ register_result' = handled.result
                   /\ rpc' = "done"
                   /\ UNCHANGED <<attempt, backoff>>
    /\ UNCHANGED contact_name
    /\ UNCHANGED RegisterOthers

RegisterNext == RegisterPrepare \/ RegisterAttempt

SpecRegister == RegisterInit /\ [][RegisterNext]_vars

Is502(answer) == answer.kind = "response" /\ answer.status_code = 502

Succeeded(answer) ==
    /\ answer.kind = "response"
    /\ answer.status_code = 200
    /\ answer.body \in {"success", "success, user null", "success, no user"}

\* C27: register_contact issues at most 3 registration requests per call and
\* re-sends only after an HTTP 502; the GHL webhook is posted at most once and
\* only after a registration response with HTTP 200 and status 'success';
\* when all 3 attempts return 502 the call fails with a 502 error and no GHL
\* webhook post is made.
C27_RegisterRetries ==
    /\ Len(reg_responses) <= 3
    /\ \A i \in 1..(Len(reg_responses) - 1) : Is502(reg_responses[i])
    /\ Len(ghl_webhook_posts) <= 1
    /\ \A p \in 1..Len(ghl_webhook_posts) :
           /\ ghl_webhook_posts[p].after = Len(reg_responses)
           /\ Succeeded(reg_responses[ghl_webhook_posts[p].after])
    /\ (Len(reg_responses) = 3 /\ \A i \in 1..3 : Is502(reg_responses[i])) =>
           /\ register_result = HttpException(502)
           /\ ghl_webhook_posts = <<>>

C27_Witness ==
    /\ rpc = "done"
    /\ Len(reg_responses) = 3
    /\ Is502(reg_responses[1]) /\ Is502(reg_responses[2])
    /\ reg_responses[3].status_code = 200 /\ reg_responses[3].body = "success"
    /\ Len(ghl_webhook_posts) = 1
    /\ register_result = Return("registered")

-----------------------------------------------------------------------------
(* SpecLowEngagement: what is sent *)

\* an entry that attended for two hours
HighEngagementEntry(e) ==
    /\ e.kind = "dict"
    /\ Lower(PyStrOf(Get(e.attended_live, PyStr(<<>>)))) = <<"y", "e", "s">>
    /\ e.time_live = TwoHours

\* the entries received that are objects with an email and not high engagement
SendableFetched ==
    SelectSeq(fetched,
              LAMBDA e : /\ e.kind = "dict"
                         /\ e.email.type = "str" /\ e.email.val # <<>>
                         /\ ~HighEngagementEntry(e))

\* C28: every payload sent by process_low_engagement_no_shows has tag
\* 'low engagement' or 'no-show' and hot_lead 0; a registrant classified
\* 'high engagement' is never sent by this script, for every sequence of
\* pages returned by the collaborator.
C28_OnlyLowOrNoShowSent ==
    /\ \A i \in 1..Len(low_posts) :
           /\ low_posts[i].tag \in {"low engagement", "no-show"}
           /\ low_posts[i].hot_lead = 0
    /\ Len(low_posts) <= Len(SendableFetched)
    /\ \A i \in 1..Len(low_posts) : low_posts[i].email = SendableFetched[i].email

C28_Witness ==
    /\ lpc = "done"
    /\ Len(fetched) = 3
    /\ HighEngagementEntry(fetched[1])
    /\ fetched[2] = Entry("dict", EmailB, PyStr(<<"n", "o">>), TwoHours)
    /\ fetched[3] = Entry("dict", EmailB, PyStr(<<"Y", "e", "s">>), TenMinutes)
    /\ Len(low_posts) = 2
    /\ low_posts[1].tag = "no-show"
    /\ low_posts[2].tag = "low engagement"

-----------------------------------------------------------------------------
(* SpecTime: the sign of the result *)

\* C29 as claimed: the duration produced by parse_time_to_seconds is never
\* negative: for every input (including strings whose parts carry a sign,
\* such as '-1:00:00' or '0:-5:00') the returned number of seconds is >= 0.
C29_DurationNeverNegative ==
    (tpc = "done" /\ parse_result.kind = "return") => parse_result.value >= 0

-----------------------------------------------------------------------------
(* SpecAggregate: one delivery per person *)

\* C30 as claimed: in one run of process_high_engagement_attendees no person
\* is delivered twice: no two webhook POSTs carry the same non-empty email,
\* also when some sessions of that person carry a registrant_id and others
\* have a blank registrant_id and are keyed by user_email.
C30_NoPersonDeliveredTwice ==
    \A m, n \in 1..Len(ghl_posts) :
        (/\ m # n
         /\ "email" \in DOMAIN ghl_posts[m]
         /\ "email" \in DOMAIN ghl_posts[n]
         /\ ghl_posts[m].email.type = "str"
         /\ ghl_posts[m].email.val # <<>>) =>
            ghl_posts[m].email # ghl_posts[n].email

====
